---- MODULE Spec2Model ----
(***************************************************************************)
(* Transaction coordinator of prisma-adapter-bunsqlite: the AsyncMutex     *)
(* gate (src/src/transaction.ts), BunSqliteTransaction's state tracking,   *)
(* and BunSqliteAdapter.startTransaction / dispose / executeScript         *)
(* (src/src/adapter.ts) over one bun:sqlite handle.                        *)
(*                                                                         *)
(* JavaScript runs every handler to its next await without interruption,   *)
(* so each action below is one such synchronous run.  startTransaction     *)
(* has a single await (the gate), hence two runs: StartTransaction up to   *)
(* the await, ResumeStartTransaction after the gate was granted.           *)
(***************************************************************************)
EXTENDS Integers, Sequences, FiniteSets, TLC

\* Number of startTransaction calls made on the connection.  Calls are
\* numbered in the order they are made, so a call's number is its arrival rank.
MaxCalls == 3

Call == 1..MaxCalls

\* `by` of a statement or a result: the connection object itself, or the
\* Transaction returned to call c.
Conn == 0

\* The isolationLevel argument of startTransaction: absent, or one of the
\* IsolationLevel names of the driver-adapter interface.
Levels == {"absent", "SERIALIZABLE", "READ UNCOMMITTED", "READ COMMITTED",
           "REPEATABLE READ", "SNAPSHOT"}

\* Statement classes the engine distinguishes for transaction control.
Sql == {"BEGIN", "COMMIT", "ROLLBACK", "DML"}

VARIABLES
    locked,      \* AsyncMutex.locked
    queue,       \* AsyncMutex.queue: the waiters' closures, by call
    called,      \* called[c]: the `called` flag of call c's release handle
    releases,    \* releases[c]: times AsyncMutex.release ran for c's handle
    pc,          \* pc[c]: where call c's startTransaction stands
    state,       \* state[c]: BunSqliteTransaction.state of c's transaction
    nextCall,    \* number of the next startTransaction call
    dbOpen,      \* the bun:sqlite handle has not been closed
    engineTxn,   \* the engine has an open transaction (not autocommit)
    last,        \* the last API call: op, by, outcome, statement run
    io           \* the library call observed: function, input, output

\* The variables of the transaction coordinator.
coordinator == <<locked, queue, called, releases, pc, state, nextCall, dbOpen, engineTxn, last>>

vars == <<locked, queue, called, releases, pc, state, nextCall, dbOpen, engineTxn, last, io>>

\* No queryRaw result, argument conversion or error translation observed.
NoCall == [fn |-> "none"]

\* TransactionState, plus "none" before the Transaction object exists.
TransactionState == {"active", "committed", "rolled_back"}

Init ==
    /\ locked = FALSE
    /\ queue = <<>>
    /\ called = [c \in Call |-> FALSE]
    /\ releases = [c \in Call |-> 0]
    /\ pc = [c \in Call |-> "idle"]
    /\ state = [c \in Call |-> "none"]
    /\ nextCall = 1
    /\ dbOpen = TRUE
    /\ engineTxn = FALSE
    /\ last = [op |-> "connect", by |-> Conn, out |-> "ok", exec |-> "none"]
    /\ io = NoCall

----------------------------------------------------------------------------
(* The engine, as the adapter sees it through db.run / db.query / db.exec.  *)

\* Whether the engine accepts statement sql: a closed handle rejects
\* everything, BEGIN needs autocommit mode, COMMIT and ROLLBACK need an open
\* transaction, any other statement succeeds or fails on its data (dataOk).
EngineAccepts(sql, dataOk) ==
    /\ dbOpen
    /\ CASE sql = "BEGIN" -> ~engineTxn
         [] sql \in {"COMMIT", "ROLLBACK"} -> engineTxn
         [] OTHER -> dataOk

\* The engine's transaction flag after statement sql was handed to it.
EngineTxnAfter(sql, dataOk) ==
    IF ~EngineAccepts(sql, dataOk) THEN engineTxn
    ELSE CASE sql = "BEGIN" -> TRUE
           [] sql \in {"COMMIT", "ROLLBACK"} -> FALSE
           [] OTHER -> engineTxn

----------------------------------------------------------------------------
(* AsyncMutex.  Each operator gives the gate after the call: the locked    *)
(* flag, the queue, and the calls whose acquire() promise it resolved.     *)

AcquireSkipsLockedCheck(c) ==
    [locked |-> TRUE, queue |-> queue, granted |-> {c}]

\* acquire(): immediate when unlocked, else a closure is pushed on the queue.
Acquire(c) ==
    IF ~locked
    THEN [locked |-> TRUE, queue |-> queue, granted |-> {c}]
    ELSE [locked |-> locked, queue |-> Append(queue, c), granted |-> {}]

ReleaseUnlocksThenWakes ==
    IF queue # <<>>
    THEN [locked |-> FALSE, queue |-> Tail(queue), granted |-> {Head(queue)}]
    ELSE [locked |-> FALSE, queue |-> queue, granted |-> {}]

ReleaseForgetsWaiter ==
    IF queue # <<>>
    THEN [locked |-> TRUE, queue |-> Tail(queue), granted |-> {}]
    ELSE [locked |-> FALSE, queue |-> queue, granted |-> {}]

ReleaseWakesLast ==
    IF queue # <<>>
    THEN [locked |-> TRUE, queue |-> SubSeq(queue, 1, Len(queue) - 1),
          granted |-> {queue[Len(queue)]}]
    ELSE [locked |-> FALSE, queue |-> queue, granted |-> {}]

ReleaseUnlocksKeepingWaiters ==
    [locked |-> FALSE, queue |-> queue, granted |-> {}]

\* release(): queue.shift(); the shifted closure sets locked = true and
\* resolves its waiter's promise; with no waiter, locked = false.
Release ==
    IF queue # <<>>
    THEN [locked |-> TRUE, queue |-> Tail(queue), granted |-> {Head(queue)}]
    ELSE [locked |-> FALSE, queue |-> queue, granted |-> {}]

ReleaserWithoutCalledFlag(c) ==
    [ran |-> TRUE, gate |-> Release]

\* The handle createReleaser() returned to call c: release() runs on its
\* first call only.
Releaser(c) ==
    IF called[c]
    THEN [ran |-> FALSE, gate |-> [locked |-> locked, queue |-> queue, granted |-> {}]]
    ELSE [ran |-> TRUE, gate |-> Release]

\* Effect of call c invoking its release handle, on the gate and on the
\* waiter it wakes.  pcNow is pc as the caller has already updated it.
ReleaseLock(c, pcNow) ==
    LET r == Releaser(c) IN
    /\ called' = [called EXCEPT ![c] = TRUE]
    /\ releases' = [releases EXCEPT ![c] = IF r.ran /\ @ < 2 THEN @ + 1 ELSE @]
    /\ locked' = r.gate.locked
    /\ queue' = r.gate.queue
    /\ pc' = [d \in Call |-> IF d \in r.gate.granted THEN "granted" ELSE pcNow[d]]

----------------------------------------------------------------------------
(* BunSqliteAdapter                                                        *)

\* startTransaction up to `await this.transactionMutex.acquire()`.
\* startTransaction that takes the gate first and looks at the level after.
StartTransactionChecksLevelLate(level) ==
    /\ nextCall <= MaxCalls
    /\ nextCall' = nextCall + 1
    /\ LET c == nextCall
           g == Acquire(c) IN
       /\ locked' = g.locked
       /\ queue' = g.queue
       /\ IF level \notin {"absent", "SERIALIZABLE"}
          THEN /\ pc' = [pc EXCEPT ![c] = "rejected"]
               /\ last' = [op |-> "startTransaction", by |-> c,
                           out |-> "InvalidIsolationLevel", exec |-> "none"]
          ELSE /\ pc' = [pc EXCEPT ![c] = IF c \in g.granted THEN "granted" ELSE "waiting"]
               /\ last' = [op |-> "startTransaction", by |-> c,
                           out |-> "pending", exec |-> "none"]
    /\ UNCHANGED <<called, releases, state, dbOpen, engineTxn, io>>

StartTransaction(level) ==
    /\ nextCall <= MaxCalls
    /\ nextCall' = nextCall + 1
    /\ LET c == nextCall IN
       IF level \notin {"absent", "SERIALIZABLE"}
       THEN /\ pc' = [pc EXCEPT ![c] = "rejected"]
            /\ last' = [op |-> "startTransaction", by |-> c,
                        out |-> "InvalidIsolationLevel", exec |-> "none"]
            /\ UNCHANGED <<locked, queue>>
       ELSE LET g == Acquire(c) IN
            /\ locked' = g.locked
            /\ queue' = g.queue
            /\ pc' = [pc EXCEPT ![c] = IF c \in g.granted THEN "granted" ELSE "waiting"]
            /\ last' = [op |-> "startTransaction", by |-> c,
                        out |-> "pending", exec |-> "none"]
    /\ UNCHANGED <<called, releases, state, dbOpen, engineTxn, io>>

ResumeKeepsLockOnError(c) ==
    /\ pc[c] = "granted"
    /\ engineTxn' = EngineTxnAfter("BEGIN", TRUE)
    /\ IF EngineAccepts("BEGIN", TRUE)
       THEN /\ pc' = [pc EXCEPT ![c] = "returned"]
            /\ state' = [state EXCEPT ![c] = "active"]
            /\ last' = [op |-> "startTransaction", by |-> c, out |-> "ok", exec |-> "BEGIN"]
       ELSE /\ pc' = [pc EXCEPT ![c] = "failed"]
            /\ state' = state
            /\ last' = [op |-> "startTransaction", by |-> c,
                        out |-> "EngineError", exec |-> "BEGIN"]
    /\ UNCHANGED <<locked, queue, called, releases, nextCall, dbOpen, io>>

\* startTransaction after the await: BEGIN, then the Transaction is
\* returned; if BEGIN throws, releaseLock() and the error is thrown.
ResumeStartTransaction(c) ==
    /\ pc[c] = "granted"
    /\ engineTxn' = EngineTxnAfter("BEGIN", TRUE)
    /\ IF EngineAccepts("BEGIN", TRUE)
       THEN /\ pc' = [pc EXCEPT ![c] = "returned"]
            /\ state' = [state EXCEPT ![c] = "active"]
            /\ last' = [op |-> "startTransaction", by |-> c, out |-> "ok", exec |-> "BEGIN"]
            /\ UNCHANGED <<locked, queue, called, releases>>
       ELSE /\ ReleaseLock(c, [pc EXCEPT ![c] = "failed"])
            /\ state' = state
            /\ last' = [op |-> "startTransaction", by |-> c,
                        out |-> "EngineError", exec |-> "BEGIN"]
    /\ UNCHANGED <<nextCall, dbOpen, io>>

\* The try block shared by BunSqliteQueryable.queryRaw / executeRaw and
\* executeScript: the statement is handed to the engine, an engine error is
\* thrown to the caller (converted or not).
RunOnEngine(op, by, sql, dataOk) ==
    /\ engineTxn' = EngineTxnAfter(sql, dataOk)
    /\ last' = [op |-> op, by |-> by,
                out |-> IF EngineAccepts(sql, dataOk) THEN "ok" ELSE "EngineError",
                exec |-> sql]

\* queryRaw called on the adapter (connection) object.
ConnQueryRaw(sql, dataOk) ==
    /\ RunOnEngine("queryRaw", Conn, sql, dataOk)
    /\ UNCHANGED <<locked, queue, called, releases, pc, state, nextCall, dbOpen, io>>

\* executeRaw called on the adapter (connection) object.
ConnExecuteRaw(sql, dataOk) ==
    /\ RunOnEngine("executeRaw", Conn, sql, dataOk)
    /\ UNCHANGED <<locked, queue, called, releases, pc, state, nextCall, dbOpen, io>>

\* executeScript: db.exec(script).
ExecuteScript(sql, dataOk) ==
    /\ RunOnEngine("executeScript", Conn, sql, dataOk)
    /\ UNCHANGED <<locked, queue, called, releases, pc, state, nextCall, dbOpen, io>>

\* dispose(): this.db.close().
Dispose ==
    /\ dbOpen' = FALSE
    /\ engineTxn' = FALSE
    /\ last' = [op |-> "dispose", by |-> Conn, out |-> "ok", exec |-> "none"]
    /\ UNCHANGED <<locked, queue, called, releases, pc, state, nextCall, io>>

----------------------------------------------------------------------------
(* BunSqliteTransaction                                                    *)

TxRunWithoutStateGuard(c, op, sql, dataOk) ==
    /\ pc[c] = "returned"
    /\ RunOnEngine(op, c, sql, dataOk)
    /\ UNCHANGED <<locked, queue, called, releases, pc, state, nextCall, dbOpen, io>>

TxRunRollsBackOnError(c, op, sql, dataOk) ==
    /\ pc[c] = "returned"
    /\ IF state[c] # "active"
       THEN /\ last' = [op |-> op, by |-> c,
                        out |-> "TransactionAlreadyClosed", exec |-> "none"]
            /\ UNCHANGED <<engineTxn, locked, queue, called, releases, pc, state>>
       ELSE /\ RunOnEngine(op, c, sql, dataOk)
            /\ IF EngineAccepts(sql, dataOk)
               THEN UNCHANGED <<locked, queue, called, releases, pc, state>>
               ELSE /\ state' = [state EXCEPT ![c] = "rolled_back"]
                    /\ ReleaseLock(c, pc)
    /\ UNCHANGED <<nextCall, dbOpen, io>>

\* queryRaw / executeRaw overrides: the state guard, then super's method.
TxRun(c, op, sql, dataOk) ==
    /\ pc[c] = "returned"
    /\ IF state[c] # "active"
       THEN /\ last' = [op |-> op, by |-> c,
                        out |-> "TransactionAlreadyClosed", exec |-> "none"]
            /\ UNCHANGED engineTxn
       ELSE RunOnEngine(op, c, sql, dataOk)
    /\ UNCHANGED <<locked, queue, called, releases, pc, state, nextCall, dbOpen, io>>

TxQueryRaw(c, sql, dataOk) == TxRun(c, "queryRaw", sql, dataOk)

TxExecuteRaw(c, sql, dataOk) == TxRun(c, "executeRaw", sql, dataOk)

\* commit(): state = "committed"; releaseLock().
Commit(c) ==
    /\ pc[c] = "returned"
    /\ state' = [state EXCEPT ![c] = "committed"]
    /\ ReleaseLock(c, pc)
    /\ last' = [op |-> "commit", by |-> c, out |-> "ok", exec |-> "none"]
    /\ UNCHANGED <<nextCall, dbOpen, engineTxn, io>>

\* rollback(): state = "rolled_back"; releaseLock().
Rollback(c) ==
    /\ pc[c] = "returned"
    /\ state' = [state EXCEPT ![c] = "rolled_back"]
    /\ ReleaseLock(c, pc)
    /\ last' = [op |-> "rollback", by |-> c, out |-> "ok", exec |-> "none"]
    /\ UNCHANGED <<nextCall, dbOpen, engineTxn, io>>

----------------------------------------------------------------------------

Next ==
    \/ \E level \in Levels : StartTransaction(level)
    \/ \E c \in Call : ResumeStartTransaction(c)
    \/ \E c \in Call, sql \in Sql, dataOk \in BOOLEAN : TxQueryRaw(c, sql, dataOk)
    \/ \E c \in Call, sql \in Sql, dataOk \in BOOLEAN : TxExecuteRaw(c, sql, dataOk)
    \/ \E c \in Call : Commit(c)
    \/ \E c \in Call : Rollback(c)
    \/ \E sql \in Sql, dataOk \in BOOLEAN : ConnQueryRaw(sql, dataOk)
    \/ \E sql \in Sql, dataOk \in BOOLEAN : ConnExecuteRaw(sql, dataOk)
    \/ \E sql \in Sql, dataOk \in BOOLEAN : ExecuteScript(sql, dataOk)
    \/ Dispose

Spec == Init /\ [][Next]_vars

\* The first commit() or rollback() on c's transaction.
FirstEnd(c) == state[c] = "active" /\ (Commit(c) \/ Rollback(c))

\* A resolved acquire() promise runs its continuation (the microtask queue
\* is drained), and every caller that was returned a Transaction ends it.
Fairness ==
    \A c \in Call : WF_vars(ResumeStartTransaction(c)) /\ WF_vars(FirstEnd(c))

LiveSpec == Init /\ [][Next]_vars /\ Fairness

TypeOK ==
    /\ locked \in BOOLEAN
    /\ queue \in Seq(Call)
    /\ called \in [Call -> BOOLEAN]
    /\ releases \in [Call -> 0..2]
    /\ pc \in [Call -> {"idle", "rejected", "waiting", "granted", "returned", "failed"}]
    /\ state \in [Call -> TransactionState \cup {"none"}]
    /\ nextCall \in 1..(MaxCalls + 1)
    /\ dbOpen \in BOOLEAN
    /\ engineTxn \in BOOLEAN
    /\ last.by \in {Conn} \cup Call
    /\ last.exec \in Sql \cup {"none"}
    /\ last.out \in {"ok", "pending", "EngineError", "InvalidIsolationLevel",
                     "TransactionAlreadyClosed"}

----------------------------------------------------------------------------
(* Properties of the transaction coordinator                               *)

\* Call c holds the gate: it was granted and its transaction has seen
\* neither commit() nor rollback() (nor did its BEGIN fail).
Holds(c) == pc[c] = "granted" \/ (pc[c] = "returned" /\ state[c] = "active")

\* Call c's Transaction was returned and is still active.
InFlight(c) == pc[c] = "returned" /\ state[c] = "active"

\* Call c asked for the gate (its isolation level was accepted).
Requested(c) == pc[c] \in {"waiting", "granted", "returned", "failed"}

WasGranted(c) == pc[c] \in {"granted", "returned", "failed"}

\* Call c was granted the gate and gave it back.
HasReleased(c) == pc[c] = "failed" \/ (pc[c] = "returned" /\ state[c] # "active")

Closed(c) == state[c] \in {"committed", "rolled_back"}

\* The step is a commit() or rollback() on c's transaction.
EndsTransaction(c) == last'.by = c /\ last'.op \in {"commit", "rollback"}

\* The step is a queryRaw or executeRaw on c's transaction.
TxStatement(c) == last'.by = c /\ last'.op \in {"queryRaw", "executeRaw"}

\* C1: at most one call holds the gate at any time, and a startTransaction
\* call issues BEGIN only while it is the one holder: from a grant until
\* that transaction's first commit() or rollback() nobody else is granted
\* the gate or issues BEGIN.
C1_OneTransactionAtATime ==
    /\ [](Cardinality({c \in Call : Holds(c)}) <= 1)
    /\ [][\A c \in Call :
            last'.op = "startTransaction" /\ last'.by = c /\ last'.exec = "BEGIN"
            => Holds(c) /\ \A d \in Call \ {c} : ~Holds(d)]_vars

\* One transaction is active while another caller waits for the gate.
C1_Witness ==
    \E c, d \in Call : InFlight(c) /\ pc[d] = "waiting" /\ d \in {queue[i] : i \in 1..Len(queue)}

\* C2: strict FIFO admission.  Calls are numbered in arrival order; whenever
\* a call has been granted the gate, every earlier requester has been
\* granted it before and has already released it, so no later requester
\* overtakes an earlier one that still waits, and the wait queue is in
\* arrival order.
C2_FifoAdmission ==
    /\ \A c, d \in Call : c < d /\ Requested(c) /\ WasGranted(d) => HasReleased(c)
    /\ \A i, j \in 1..Len(queue) : i < j => queue[i] < queue[j]

\* Three requesters c < d < e: c has released, the release handed the gate
\* to d, and e is still queued behind.
C2_Witness ==
    \E c, d, e \in Call :
        /\ c < d /\ d < e
        /\ last.by = c /\ last.op \in {"commit", "rollback"}
        /\ HasReleased(c) /\ pc[d] = "granted" /\ queue = <<e>>

\* C3: a second call of the same release handle changes nothing of the
\* gate (locked flag, queue, grants), and however often commit() and
\* rollback() are repeated on a transaction, release() runs exactly once
\* for it.
C3_SecondReleaseIsNoOp ==
    /\ [][\A c \in Call :
            called[c] /\ EndsTransaction(c)
            => locked' = locked /\ queue' = queue /\ pc' = pc /\ releases' = releases]_vars
    /\ [](\A c \in Call : releases[c] <= 1)
    /\ [](\A c \in Call : HasReleased(c) => releases[c] = 1)

\* commit()/rollback() was called again on c's closed transaction while a
\* later call d holds the gate with an active transaction.
C3_Witness ==
    \E c, d \in Call :
        /\ c # d /\ last.by = c /\ last.op \in {"commit", "rollback"}
        /\ InFlight(d) /\ locked /\ releases[c] = 1

\* C4: committed and rolled_back are terminal: a closed transaction's state
\* never changes again, and every further commit() or rollback() on it
\* fails with TransactionAlreadyClosed.
C4_TerminalStates ==
    [][\A c \in Call :
        Closed(c) =>
            /\ state'[c] = state[c]
            /\ (EndsTransaction(c) => last'.out = "TransactionAlreadyClosed")]_vars

\* C5: once commit() or rollback() was called on a transaction, every
\* queryRaw and executeRaw on it fails with TransactionAlreadyClosed and
\* hands no statement to the engine.
C5_ClosedTransactionRejectsStatements ==
    [][\A c \in Call :
        Closed(c) /\ TxStatement(c) =>
            /\ last'.out = "TransactionAlreadyClosed"
            /\ last'.exec = "none"
            /\ engineTxn' = engineTxn]_vars

\* A statement was attempted on a closed transaction and rejected, while the
\* engine handle is open.
C5_Witness ==
    \E c \in Call :
        /\ Closed(c) /\ last.by = c /\ last.op \in {"queryRaw", "executeRaw"}
        /\ last.out = "TransactionAlreadyClosed" /\ dbOpen

\* C6: when BEGIN fails in startTransaction, the step that raises the error
\* has already released the gate: the head waiter, if any, is granted it,
\* else the gate is unlocked; and a failed caller never keeps the gate
\* locked (if it is locked, another call holds it).
C6_BeginFailureReleasesGate ==
    /\ [][\A c \in Call :
            last'.by = c /\ last'.op = "startTransaction" /\ last'.out = "EngineError"
            => /\ called'[c] /\ releases'[c] = 1 /\ ~Holds(c)'
               /\ IF queue # <<>>
                  THEN locked' /\ pc'[Head(queue)] = "granted" /\ queue' = Tail(queue)
                  ELSE ~locked']_vars
    /\ [](\A c \in Call : pc[c] = "failed" /\ locked => \E d \in Call \ {c} : Holds(d))

\* The BEGIN of call c has just failed and its release granted the gate to
\* the waiter d.
C6_Witness ==
    \E c, d \in Call :
        /\ c # d /\ pc[c] = "failed" /\ pc[d] = "granted"
        /\ last.by = c /\ last.op = "startTransaction" /\ last.out = "EngineError"

\* C7: dispose() does not close the engine handle while a transaction is in
\* flight: the handle is closed only when no transaction is active.
C7_DisposeWaitsForTransaction ==
    [][dbOpen /\ ~dbOpen' => \A c \in Call : ~InFlight(c)]_vars

C9_DirectHandoff ==
    /\ [][\A c \in Call :
            ~called[c] /\ called'[c] =>
                IF queue # <<>>
                THEN /\ locked /\ locked'
                     /\ queue' = Tail(queue)
                     /\ {d \in Call : pc[d] # "granted" /\ pc'[d] = "granted"} = {Head(queue)}
                ELSE /\ ~locked' /\ queue' = queue
                     /\ {d \in Call : pc[d] # "granted" /\ pc'[d] = "granted"} = {}]_vars
    /\ [][locked /\ ~locked' => queue = <<>> /\ \E c \in Call : ~called[c] /\ called'[c]]_vars

\* The holder c has just released with waiters queued: d was handed the
\* gate, which stayed locked.
C9_Witness ==
    \E c, d \in Call :
        /\ c # d /\ last.by = c /\ last.op \in {"commit", "rollback"}
        /\ releases[c] = 1 /\ pc[d] = "granted" /\ locked /\ d > c

\* C10: while a Transaction holds the gate, no statement issued through the
\* connection object (queryRaw, executeRaw, executeScript) is executed on
\* the engine.
C10_ConnectionIdleDuringTransaction ==
    [][last'.by = Conn /\ last'.exec # "none" => \A c \in Call : ~InFlight(c)]_vars

\* C11: startTransaction with an isolation level other than SERIALIZABLE
\* fails with InvalidIsolationLevel and leaves the gate flag and the wait
\* queue as they were, with no BEGIN sent to the engine; with the level
\* absent or SERIALIZABLE the call goes on to the gate (it is granted or
\* queued) and is not rejected.
C11_OnlySerializableReachesGate ==
    [][\A level \in Levels :
          StartTransaction(level) =>
            \A c \in {nextCall} :
            IF level \in {"absent", "SERIALIZABLE"}
            THEN /\ pc'[c] \in {"granted", "waiting"}
                 /\ last'.out = "pending"
                 /\ locked'
            ELSE /\ pc'[c] = "rejected"
                 /\ last'.out = "InvalidIsolationLevel"
                 /\ last'.exec = "none"
                 /\ locked' = locked /\ queue' = queue
                 /\ engineTxn' = engineTxn
                 /\ ~Holds(c)' /\ ~InFlight(c)']_vars

\* A call was just rejected for its level while another call holds the gate
\* and a third one waits in the queue.
C11_Witness ==
    /\ last.op = "startTransaction" /\ last.out = "InvalidIsolationLevel"
    /\ pc[last.by] = "rejected"
    /\ locked /\ queue # <<>>
    /\ \E d \in Call : Holds(d)

----------------------------------------------------------------------------
(* Value conversion (src/src/conversion.ts).  A JavaScript string is the   *)
(* sequence of its characters; a bigint or an integral number is a sign    *)
(* and the decimal digits of its magnitude, most significant first.        *)

Null == [t |-> "null"]

Undefined == [t |-> "undefined"]

Str(s) == [t |-> "string", s |-> s]

\* mag has no leading zero; zero is <<0>> and is never negative.
BigInt(neg, mag) == [t |-> "bigint", neg |-> neg, mag |-> mag]

\* An array of values, such as a row.
Arr(a) == [t |-> "array", a |-> a]

\* A double: the sign and integral part, and whether a fraction follows.
Num(neg, mag, frac) == [t |-> "number", neg |-> neg, mag |-> mag, frac |-> frac]

\* `if (x)` for a string-or-null x.
Truthy(x) == x.t = "string" /\ x.s # <<>>

LowerCase == <<"a", "b", "c", "d", "e", "f", "g", "h", "i", "j", "k", "l", "m",
               "n", "o", "p", "q", "r", "s", "t", "u", "v", "w", "x", "y", "z">>

UpperCase == <<"A", "B", "C", "D", "E", "F", "G", "H", "I", "J", "K", "L", "M",
               "N", "O", "P", "Q", "R", "S", "T", "U", "V", "W", "X", "Y", "Z">>

ToUpperCase(s) ==
    [i \in 1..Len(s) |->
        IF \E k \in 1..Len(LowerCase) : LowerCase[k] = s[i]
        THEN UpperCase[CHOOSE k \in 1..Len(LowerCase) : LowerCase[k] = s[i]]
        ELSE s[i]]

RECURSIVE TrimStart(_)
TrimStart(s) == IF s # <<>> /\ Head(s) = " " THEN TrimStart(Tail(s)) ELSE s

RECURSIVE TrimEnd(_)
TrimEnd(s) ==
    IF s # <<>> /\ s[Len(s)] = " " THEN TrimEnd(SubSeq(s, 1, Len(s) - 1)) ELSE s

Trim(s) == TrimEnd(TrimStart(s))

\* The characters of s as one string, for comparison with string literals.
RECURSIVE Join(_)
Join(s) == IF s = <<>> THEN "" ELSE Head(s) \o Join(Tail(s))

\* s.replace(/\([^)]*\)/, ""): the first "(" that has a ")" after it is
\* removed together with everything up to the nearest ")".
RemoveParens(s) ==
    LET opens == {i \in 1..Len(s) : s[i] = "(" /\ \E j \in (i+1)..Len(s) : s[j] = ")"}
    IN  IF opens = {} THEN s
        ELSE LET i == CHOOSE i \in opens : \A k \in opens : i <= k
                 closes == {j \in (i+1)..Len(s) : s[j] = ")"}
                 j == CHOOSE j \in closes : \A k \in closes : j <= k
             IN  SubSeq(s, 1, i - 1) \o SubSeq(s, j + 1, Len(s))

\* mapDeclType: the ColumnType of a declared type, "null" when unmappable.
mapDeclType(declType) ==
    LET normalized == Trim(ToUpperCase(declType))
        baseType == Join(Trim(RemoveParens(normalized)))
    IN  CASE baseType = "" -> "null"
          [] baseType = "DECIMAL" -> "Numeric"
          [] baseType = "FLOAT" -> "Float"
          [] baseType \in {"DOUBLE", "DOUBLE PRECISION", "NUMERIC", "REAL"} -> "Double"
          [] baseType \in {"TINYINT", "SMALLINT", "MEDIUMINT", "INT", "INTEGER",
                           "SERIAL", "INT2", "TINYINT UNSIGNED", "SMALLINT UNSIGNED",
                           "MEDIUMINT UNSIGNED", "INT UNSIGNED", "INTEGER UNSIGNED"}
               -> "Int32"
          [] baseType \in {"BIGINT", "UNSIGNED BIG INT", "INT8", "BIGINT UNSIGNED"}
               -> "Int64"
          [] baseType \in {"DATETIME", "TIMESTAMP"} -> "DateTime"
          [] baseType = "TIME" -> "Time"
          [] baseType = "DATE" -> "Date"
          [] baseType \in {"TEXT", "CLOB", "CHAR", "CHARACTER", "VARCHAR",
                           "VARYING CHARACTER", "NCHAR", "NATIVE CHARACTER", "NVARCHAR"}
               -> "Text"
          [] baseType = "BLOB" -> "Bytes"
          [] baseType = "BOOLEAN" -> "Boolean"
          [] baseType \in {"JSON", "JSONB"} -> "Json"
          [] OTHER -> "null"

\* mapRuntimeType: the ColumnType of an engine storage class.
mapRuntimeType(runtimeType) ==
    IF ~Truthy(runtimeType) THEN "null"
    ELSE LET tag == Join(ToUpperCase(runtimeType.s))
         IN  CASE tag = "INTEGER" -> "Int64"
               [] tag \in {"REAL", "FLOAT"} -> "Double"
               [] tag = "TEXT" -> "Text"
               [] tag = "BLOB" -> "Bytes"
               [] OTHER -> "null"

inferTypeFromValue(value) ==
    CASE value.t \in {"null", "undefined"} -> "null"
      [] value.t = "bigint" -> "Int64"
      [] value.t = "number" -> "UnknownNumber"
      [] value.t = "string" -> "Text"
      [] value.t = "bytes" -> "Bytes"
      [] value.t = "boolean" -> "Boolean"
      [] OTHER -> "null"

\* getColumnTypes: one ColumnType per declared-type entry; `values` is the
\* first row as an Arr, or Undefined when there is none.
getColumnTypes(declaredTypes, runtimeTypes, values) ==
    [index \in 1..Len(declaredTypes) |->
        LET declType == declaredTypes[index]
            runtimeType == IF index <= Len(runtimeTypes)
                           THEN runtimeTypes[index] ELSE Undefined
        IN  IF Truthy(declType) /\ mapDeclType(declType.s) # "null"
            THEN mapDeclType(declType.s)
            ELSE IF mapRuntimeType(runtimeType) # "null"
            THEN mapRuntimeType(runtimeType)
            ELSE IF values.t = "array" /\ index <= Len(values.a)
                    /\ inferTypeFromValue(values.a[index]) # "null"
            THEN inferTypeFromValue(values.a[index])
            ELSE "Int32"]

(* Decimal arithmetic on digit sequences: 64-bit integers and the doubles  *)
(* they convert to do not fit the checker's integers.                      *)

DigitChars == <<"0", "1", "2", "3", "4", "5", "6", "7", "8", "9">>

IsDigitChar(ch) == \E k \in 1..Len(DigitChars) : DigitChars[k] = ch

DigitOf(ch) == (CHOOSE k \in 1..Len(DigitChars) : DigitChars[k] = ch) - 1

RECURSIVE Norm(_)
Norm(d) == IF d = <<>> THEN <<0>>
           ELSE IF Head(d) = 0 /\ Len(d) > 1 THEN Norm(Tail(d)) ELSE d

Less(a, b) ==
    \/ Len(a) < Len(b)
    \/ /\ Len(a) = Len(b)
       /\ \E i \in 1..Len(a) : a[i] < b[i] /\ \A j \in 1..(i-1) : a[j] = b[j]

LessEq(a, b) == a = b \/ Less(a, b)

IsOdd(d) == d[Len(d)] % 2 = 1

RECURSIVE HalfFrom(_, _)
HalfFrom(d, carry) ==
    IF d = <<>> THEN <<>>
    ELSE LET cur == carry * 10 + Head(d)
         IN  <<cur \div 2>> \o HalfFrom(Tail(d), cur % 2)

Half(d) == Norm(HalfFrom(d, 0))

RECURSIVE TwiceFrom(_, _)
TwiceFrom(d, carry) ==
    IF d = <<>> THEN (IF carry = 0 THEN <<>> ELSE <<carry>>)
    ELSE LET x == 2 * d[Len(d)] + carry
         IN  TwiceFrom(SubSeq(d, 1, Len(d) - 1), x \div 10) \o <<x % 10>>

Twice(d) == Norm(TwiceFrom(d, 0))

RECURSIVE Succ(_)
Succ(d) ==
    IF d = <<>> THEN <<1>>
    ELSE IF d[Len(d)] < 9 THEN SubSeq(d, 1, Len(d) - 1) \o <<d[Len(d)] + 1>>
    ELSE Succ(SubSeq(d, 1, Len(d) - 1)) \o <<0>>

RECURSIVE TwicePow(_, _)
TwicePow(d, k) == IF k = 0 THEN d ELSE TwicePow(Twice(d), k - 1)

\* 2^53: below it every integer is a double.
TwoTo53 == <<9, 0, 0, 7, 1, 9, 9, 2, 5, 4, 7, 4, 0, 9, 9, 2>>

\* The magnitude of the double nearest to the integer d (ties to even):
\* halve until 53 bits are left, round on the bits dropped, scale back.
RECURSIVE NearestDouble(_, _, _, _)
NearestDouble(d, k, lastBit, sticky) ==
    IF Less(d, TwoTo53)
    THEN LET up == lastBit /\ (sticky \/ IsOdd(d))
         IN  TwicePow(IF up THEN Succ(d) ELSE d, k)
    ELSE NearestDouble(Half(d), k + 1, IsOdd(d), sticky \/ lastBit)

\* Number(b) of a bigint b.
ToNumber(b) ==
    LET mag == NearestDouble(b.mag, 0, FALSE, FALSE)
    IN  Num(b.neg, mag, FALSE)

\* d rounded to n significant digits.
RoundSig(d, n) ==
    IF Len(d) <= n THEN d
    ELSE LET kept == SubSeq(d, 1, n)
             up == IF d[n + 1] >= 5 THEN Succ(kept) ELSE kept
         IN  up \o [i \in 1..(Len(d) - n) |-> 0]

\* String(x) of an integral number x below 10^21: the fewest significant
\* digits that still denote the same double.
NumberToString(x) ==
    LET fits == {n \in 1..Len(x.mag) :
                    NearestDouble(RoundSig(x.mag, n), 0, FALSE, FALSE) = x.mag}
        n == CHOOSE n \in fits : \A m \in fits : n <= m
        shown == RoundSig(x.mag, n)
    IN  (IF x.neg THEN <<"-">> ELSE <<>>) \o
        [i \in 1..Len(shown) |-> DigitChars[shown[i] + 1]]

\* b.toString() of a bigint b.
BigIntToString(b) ==
    (IF b.neg THEN <<"-">> ELSE <<>>) \o
    [i \in 1..Len(b.mag) |-> DigitChars[b.mag[i] + 1]]

\* BigInt(s) of a string s: surrounding blanks dropped, an optional sign,
\* decimal digits; anything else is a SyntaxError.
ParseBigInt(s) ==
    LET t == Trim(s)
        signed == t # <<>> /\ Head(t) \in {"-", "+"}
        body == IF signed THEN Tail(t) ELSE t
    IN  IF (signed /\ body = <<>>) \/ \E i \in 1..Len(body) : ~IsDigitChar(body[i])
        THEN [t |-> "throw", error |-> "SyntaxError"]
        ELSE LET mag == Norm([i \in 1..Len(body) |-> DigitOf(body[i])])
             IN  BigInt(signed /\ Head(t) = "-" /\ mag # <<0>>, mag)

\* 7_300_000_000_000n, the largest bigint mapRow turns into a number.
TimestampCeiling == <<7, 3, 0, 0, 0, 0, 0, 0, 0, 0, 0, 0, 0>>

\* 8.64e15, the largest time value of a Date.
MaxTimeValue == <<8, 6, 4, 0, 0, 0, 0, 0, 0, 0, 0, 0, 0, 0, 0, 0>>

\* new Date(ms).toISOString(): the ISO-8601 string of the instant ms, kept
\* as that instant; a RangeError beyond the range of Date.
ToISOString(ms) ==
    IF Less(MaxTimeValue, ms.mag)
    THEN [t |-> "throw", error |-> "RangeError"]
    ELSE [t |-> "isostring", neg |-> ms.neg /\ ms.mag # <<0>>, ms |-> ms.mag]

\* mapRow's loop body with `<` for `<=` at the ceiling.
MapValueCeilingExcluded(value, columnType, allowBigIntToNumberConversion) ==
    CASE value.t = "bytes" -> Arr(value.b)
      [] value.t = "number" /\ columnType \in {"Int32", "Int64"} /\ value.frac
           -> Num(value.neg, value.mag, FALSE)
      [] value.t \in {"number", "bigint"} /\ columnType = "DateTime"
           -> ToISOString(IF value.t = "bigint" THEN ToNumber(value) ELSE value)
      [] value.t = "bigint"
           -> IF /\ allowBigIntToNumberConversion
                 /\ ~value.neg
                 /\ Less(value.mag, TimestampCeiling)
              THEN ToNumber(value)
              ELSE Str(BigIntToString(value))
      [] OTHER -> value

\* The body of mapRow's loop for one value; columnType is "undefined" past
\* the end of columnTypes.
MapValue(value, columnType, allowBigIntToNumberConversion) ==
    CASE value.t = "bytes" -> Arr(value.b)
      [] value.t = "number" /\ columnType \in {"Int32", "Int64"} /\ value.frac
           -> Num(value.neg, value.mag, FALSE)
      [] value.t \in {"number", "bigint"} /\ columnType = "DateTime"
           -> ToISOString(IF value.t = "bigint" THEN ToNumber(value) ELSE value)
      [] value.t = "bigint"
           -> IF /\ allowBigIntToNumberConversion
                 /\ ~value.neg
                 /\ LessEq(value.mag, TimestampCeiling)
              THEN ToNumber(value)
              ELSE Str(BigIntToString(value))
      [] OTHER -> value

\* mapRow: result[i] is made from row[i], for every i of the row.
mapRow(row, columnTypes, allowBigIntToNumberConversion) ==
    [i \in 1..Len(row) |->
        MapValue(row[i],
                 IF i <= Len(columnTypes) THEN columnTypes[i] ELSE "undefined",
                 allowBigIntToNumberConversion)]

----------------------------------------------------------------------------
(* queryRaw (src/src/queryable.ts) over what a bun:sqlite statement        *)
(* reports after stmt.values(): the rows, columnNames, declaredTypes and,  *)
(* when asked, columnTypes.                                                *)

\* Largest number of result columns and of result rows of a statement.
MaxCols == 2

MaxRows == 1

\* Declared types of a result column: none (an expression), a mappable
\* one, one that mapDeclType does not know.
DeclSamples == {Null, Str(<<"D", "A", "T", "E">>), Str(<<"M", "Y", "T", "Y", "P", "E">>)}

\* Values of a result column: NULL, an integer (read as a bigint), a real,
\* a text.
ValueSamples == {Null, BigInt(FALSE, <<5>>), Num(FALSE, <<1>>, TRUE), Str(<<"x">>)}

\* How the statement answers the metadata getters: with every column, with
\* the columnNames of a join deduplicated, or by throwing from one getter.
Metadata == {"full", "deduplicated", "columnNamesThrows", "declaredTypesThrows"}

\* A statement's result as the engine holds it: its columns (declared type
\* and value in each row), the number of rows, and how the getters behave.
Statements ==
    UNION {[cols : [1..k -> [decl : DeclSamples, value : ValueSamples]],
            nRows : 0..MaxRows,
            metadata : Metadata,
            columnTypesThrows : BOOLEAN] : k \in 0..MaxCols}

\* The result columns of a join: the first two are both called id.
NameOf(i) == IF i <= 2 THEN "id" ELSE "name_" \o DigitChars[i + 1]

\* The columns that are the first of their name, in column order.
FirstOfName(stmt) ==
    LET keys == {i \in 1..Len(stmt.cols) :
                    \A m \in 1..(i-1) : NameOf(m) # NameOf(i)}
    IN  [n \in 1..Cardinality(keys) |->
            CHOOSE i \in keys : Cardinality({m \in keys : m < i}) = n - 1]

\* stmt.all(): each row through an object keyed by column name, where a
\* later column of the same name replaces the value of the earlier one.
stmtAll(stmt) ==
    LET keys == FirstOfName(stmt)
        lastOf(i) == CHOOSE k \in 1..Len(stmt.cols) :
                        /\ NameOf(k) = NameOf(i)
                        /\ \A m \in (k+1)..Len(stmt.cols) : NameOf(m) # NameOf(i)
    IN  [j \in 1..stmt.nRows |->
            [n \in 1..Len(keys) |-> stmt.cols[lastOf(keys[n])].value]]

\* stmt.values(): each row as the array of its values, one per column.
stmtValues(stmt) ==
    [j \in 1..stmt.nRows |-> [i \in 1..Len(stmt.cols) |-> stmt.cols[i].value]]

\* stmt.columnNames, when the getter does not throw.
stmtColumnNames(stmt) ==
    IF stmt.metadata = "deduplicated"
    THEN [n \in 1..Len(FirstOfName(stmt)) |-> NameOf(FirstOfName(stmt)[n])]
    ELSE [i \in 1..Len(stmt.cols) |-> NameOf(i)]

\* stmt.declaredTypes, when the getter does not throw.
stmtDeclaredTypes(stmt) == [i \in 1..Len(stmt.cols) |-> stmt.cols[i].decl]

\* The storage class of a value as stmt.values() returned it; an INTEGER
\* is a bigint, or an integral number on a handle without safeIntegers.
StorageClass(value) ==
    CASE value.t = "bigint" -> Str(<<"I", "N", "T", "E", "G", "E", "R">>)
      [] value.t = "number" /\ ~value.frac -> Str(<<"I", "N", "T", "E", "G", "E", "R">>)
      [] value.t = "number" -> Str(<<"R", "E", "A", "L">>)
      [] value.t = "string" -> Str(<<"T", "E", "X", "T">>)
      [] value.t = "bytes" -> Str(<<"B", "L", "O", "B">>)
      [] OTHER -> Str(<<"N", "U", "L", "L">>)

\* stmt.columnTypes, when the getter does not throw: the storage classes of
\* the first row, NULL in every column when there is no row.
stmtColumnTypes(stmt) ==
    [i \in 1..Len(stmt.cols) |->
        StorageClass(IF stmt.nRows > 0 THEN stmt.cols[i].value ELSE Null)]

\* `column_${i}`, the name given to a column the engine did not name.
ColumnName(i) == "column_" \o DigitChars[i + 1]

\* The array a after `for (i = a.length; i < n; i++) a.push(...)`: the pushed
\* element is `column_${i}` for the names and null for the declared types.
PushUpTo(a, n, named) ==
    IF Len(a) < n
    THEN a \o [k \in 1..(n - Len(a)) |->
                 IF named THEN ColumnName(Len(a) + k - 1) ELSE Null]
    ELSE a

Max3(x, y, z) == CHOOSE m \in {x, y, z} : \A n \in {x, y, z} : n <= m

\* queryRaw's return for a statement without rows, with the metadata left out.
EmptyResultWithoutMetadata(columnNames, columnTypes) ==
    [columnNames |-> <<>>, columnTypes |-> <<>>, rows |-> <<>>]

\* queryRaw's return for a statement without rows.
EmptyResult(columnNames, columnTypes) ==
    [columnNames |-> columnNames, columnTypes |-> columnTypes, rows |-> <<>>]

\* queryRaw after stmt.values() returned: the ResultSet, or the error that
\* mapRow threw.
queryRaw(stmt, allowBigIntToNumberConversion) ==
    LET rowArrays == stmtValues(stmt)
        firstRow == IF Len(rowArrays) > 0 THEN Arr(rowArrays[1]) ELSE Undefined
        \* the try block: the assignments done before a getter threw
        tried ==
            CASE stmt.metadata = "columnNamesThrows"
                   -> [threw |-> TRUE, names |-> <<>>, declared |-> <<>>]
              [] stmt.metadata = "declaredTypesThrows"
                   -> [threw |-> TRUE, names |-> stmtColumnNames(stmt), declared |-> <<>>]
              [] OTHER
                   -> [threw |-> FALSE, names |-> stmtColumnNames(stmt),
                       declared |-> stmtDeclaredTypes(stmt)]
        \* the catch block
        got ==
            IF tried.threw /\ firstRow.t = "array"
            THEN [names |-> [i \in 1..Len(firstRow.a) |-> ColumnName(i - 1)],
                  declared |-> [i \in 1..Len(firstRow.a) |-> Null]]
            ELSE [names |-> tried.names, declared |-> tried.declared]
        mismatch == firstRow.t = "array" /\ Len(firstRow.a) # Len(got.names)
        actualColumnCount ==
            Max3(Len(got.declared),
                 IF firstRow.t = "array" THEN Len(firstRow.a) ELSE 0,
                 Len(got.names))
        columnNames ==
            IF mismatch THEN PushUpTo(got.names, actualColumnCount, TRUE)
            ELSE got.names
        declaredTypes ==
            IF mismatch THEN PushUpTo(got.declared, actualColumnCount, FALSE)
            ELSE got.declared
        needsRuntimeTypes == \E i \in 1..Len(declaredTypes) : declaredTypes[i].t = "null"
        runtimeTypes ==
            IF needsRuntimeTypes /\ ~stmt.columnTypesThrows
            THEN stmtColumnTypes(stmt) ELSE <<>>
        columnTypes == getColumnTypes(declaredTypes, runtimeTypes, firstRow)
        mappedRows ==
            [j \in 1..Len(rowArrays) |->
                mapRow(rowArrays[j], columnTypes, allowBigIntToNumberConversion)]
    IN  IF Len(rowArrays) = 0 THEN EmptyResult(columnNames, columnTypes)
        ELSE IF \E j \in 1..Len(mappedRows) :
                  \E i \in 1..Len(mappedRows[j]) : mappedRows[j][i].t = "throw"
        THEN [error |-> "RangeError"]
        ELSE [columnNames |-> columnNames, columnTypes |-> columnTypes,
              rows |-> mappedRows]

\* A queryRaw call that reached the engine and got rows back.
QueryRawCall ==
    /\ io = NoCall
    /\ \E stmt \in Statements, allow \in BOOLEAN :
          io' = [fn |-> "queryRaw", stmt |-> stmt, allow |-> allow,
                 out |-> queryRaw(stmt, allow)]
    /\ UNCHANGED coordinator

----------------------------------------------------------------------------
(* A wide integer written with a bigint argument and read back: mapArg,    *)
(* the engine's 64-bit INTEGER storage, stmt.values(), mapRow.             *)

\* Decimal strings of 64-bit integers: both extremes, zero, small values of
\* either sign, the neighbours of 7_300_000_000_000 and of 2^53.
I64Min == <<"-", "9", "2", "2", "3", "3", "7", "2", "0", "3", "6", "8", "5", "4", "7", "7", "5", "8", "0", "8">>

I64Max == <<"9", "2", "2", "3", "3", "7", "2", "0", "3", "6", "8", "5", "4", "7", "7", "5", "8", "0", "7">>

AtCeiling == <<"7", "3", "0", "0", "0", "0", "0", "0", "0", "0", "0", "0", "0">>

AboveCeiling == <<"7", "3", "0", "0", "0", "0", "0", "0", "0", "0", "0", "0", "1">>

AboveTwoTo53 == <<"9", "0", "0", "7", "1", "9", "9", "2", "5", "4", "7", "4", "0", "9", "9", "3">>

WideSamples ==
    {I64Min, I64Max, AtCeiling, AboveCeiling, AboveTwoTo53,
     <<"0">>, <<"4", "2">>, <<"-", "1">>}

\* The samples v with 0 <= v <= 7_300_000_000_000.
WithinCeiling == {<<"0">>, <<"4", "2">>, AtCeiling}

\* Number.parseInt(s) of a decimal string s.
ParseInt(s) ==
    LET b == ParseBigInt(s)
    IN  IF b.t = "throw" THEN [t |-> "number", nan |-> TRUE] ELSE ToNumber(b)

\* mapArg with every bigint argument parsed as an int is.
mapArgBigIntAsInt(arg, scalarType) ==
    IF arg.t = "null" THEN Null
    ELSE CASE scalarType \in {"int", "bigint"}
                -> IF arg.t = "string" THEN ParseInt(arg.s) ELSE arg
           [] OTHER -> arg

\* mapArg for arguments that are null, strings, numbers or bigints, of
\* scalar type int, bigint or string.
mapArg(arg, scalarType) ==
    IF arg.t = "null" THEN Null
    ELSE CASE scalarType = "int" -> IF arg.t = "string" THEN ParseInt(arg.s) ELSE arg
           [] scalarType = "bigint"
                -> IF arg.t = "string" THEN ParseBigInt(arg.s) ELSE arg
           [] OTHER -> arg

\* 2^63, one past the largest magnitude of a 64-bit integer.
TwoTo63 == <<9, 2, 2, 3, 3, 7, 2, 0, 3, 6, 8, 5, 4, 7, 7, 5, 8, 0, 8>>

\* |v| fits a 64-bit integer.
FitsInt64(v) == Less(v.mag, TwoTo63) \/ (v.neg /\ v.mag = TwoTo63)

\* What the column holds after the bound value was written: a bigint or an
\* integral number as a 64-bit INTEGER, a number beyond that range as a
\* REAL; a bigint beyond it cannot be bound.
EngineStore(bound) ==
    CASE bound.t = "bigint" /\ ~FitsInt64(bound) -> [error |-> "RangeError"]
      [] OTHER -> [neg |-> bound.neg, mag |-> bound.mag, real |-> ~FitsInt64(bound)]

\* What stmt.values() returns for a stored value: for an INTEGER a bigint
\* on a handle opened with safeIntegers, else the nearest double.
EngineRead(stored, safeIntegers) ==
    IF stored.real THEN Num(stored.neg, stored.mag, FALSE)
    ELSE IF safeIntegers THEN BigInt(stored.neg, stored.mag)
    ELSE ToNumber(BigInt(stored.neg, stored.mag))

\* The adapter options the factory accepts for these two flags:
\* allowBigIntToNumberConversion needs safeIntegers.
Options ==
    {o \in [safeIntegers : BOOLEAN, allowBigIntToNumberConversion : BOOLEAN] :
        o.allowBigIntToNumberConversion => o.safeIntegers}

\* Declared types of the column the integer is kept in.
IntegerColumns ==
    {Null, Str(<<"B", "I", "G", "I", "N", "T">>),
     Str(<<"i", "n", "t", "e", "g", "e", "r">>),
     Str(<<"T", "I", "M", "E", "S", "T", "A", "M", "P">>)}

\* executeRaw(INSERT ... VALUES (?)) with the decimal string arg of scalar
\* type bigint, then queryRaw(SELECT) of the column it went to.
RoundTripCall ==
    /\ io = NoCall
    /\ \E arg \in WideSamples, o \in Options, decl \in IntegerColumns :
          LET bound == mapArg(Str(arg), "bigint")
              stored == EngineStore(bound)
              stmt == [cols |-> <<[decl |-> decl,
                                   value |-> EngineRead(stored, o.safeIntegers)]>>,
                       nRows |-> 1, metadata |-> "full", columnTypesThrows |-> FALSE]
          IN  IF "error" \in DOMAIN stored
              THEN io' = [fn |-> "roundTrip", arg |-> arg, options |-> o, out |-> stored]
              ELSE io' = [fn |-> "roundTrip", arg |-> arg, options |-> o, stmt |-> stmt,
                          out |-> queryRaw(stmt, o.allowBigIntToNumberConversion)]
    /\ UNCHANGED coordinator

----------------------------------------------------------------------------
(* Error translation (src/src/errors.ts) and the catch blocks that call    *)
(* it.  An error is a record with the fields the thrown object has, among  *)
(* message, code and errno; a message is the sequence of its characters.   *)

\* "UNIQUE constraint failed: User.email"
MsgUnique ==
    <<"U", "N", "I", "Q", "U", "E", " ", "c", "o", "n", "s", "t", "r", "a",
      "i", "n", "t", " ", "f", "a", "i", "l", "e", "d", ":", " ", "U", "s",
      "e", "r", ".", "e", "m", "a", "i", "l">>

\* "UNIQUE constraint failed"
MsgUniqueNoFields ==
    <<"U", "N", "I", "Q", "U", "E", " ", "c", "o", "n", "s", "t", "r", "a",
      "i", "n", "t", " ", "f", "a", "i", "l", "e", "d">>

\* "NOT NULL constraint failed: User.name"
MsgNotNull ==
    <<"N", "O", "T", " ", "N", "U", "L", "L", " ", "c", "o", "n", "s", "t",
      "r", "a", "i", "n", "t", " ", "f", "a", "i", "l", "e", "d", ":", " ",
      "U", "s", "e", "r", ".", "n", "a", "m", "e">>

\* "FOREIGN KEY constraint failed"
MsgForeignKey ==
    <<"F", "O", "R", "E", "I", "G", "N", " ", "K", "E", "Y", " ", "c", "o",
      "n", "s", "t", "r", "a", "i", "n", "t", " ", "f", "a", "i", "l", "e",
      "d">>

\* "database is locked"
MsgBusy ==
    <<"d", "a", "t", "a", "b", "a", "s", "e", " ", "i", "s", " ", "l", "o",
      "c", "k", "e", "d">>

\* "no such table: main.User"
MsgNoTable ==
    <<"n", "o", " ", "s", "u", "c", "h", " ", "t", "a", "b", "l", "e", ":",
      " ", "m", "a", "i", "n", ".", "U", "s", "e", "r">>

\* "no such column: age"
MsgNoColumn ==
    <<"n", "o", " ", "s", "u", "c", "h", " ", "c", "o", "l", "u", "m", "n",
      ":", " ", "a", "g", "e">>

\* "table User has no column named age"
MsgHasNoColumn ==
    <<"t", "a", "b", "l", "e", " ", "U", "s", "e", "r", " ", "h", "a", "s",
      " ", "n", "o", " ", "c", "o", "l", "u", "m", "n", " ", "n", "a", "m",
      "e", "d", " ", "a", "g", "e">>

\* "near SELEC: syntax error"
MsgSyntax ==
    <<"n", "e", "a", "r", " ", "S", "E", "L", "E", "C", ":", " ", "s", "y",
      "n", "t", "a", "x", " ", "e", "r", "r", "o", "r">>

\* "disk I/O error"
MsgDisk ==
    <<"d", "i", "s", "k", " ", "I", "/", "O", " ", "e", "r", "r", "o", "r">>

\* "Invalid time value"
MsgInvalidTime ==
    <<"I", "n", "v", "a", "l", "i", "d", " ", "t", "i", "m", "e", " ", "v",
      "a", "l", "u", "e">>

StartsWith(s, prefix) ==
    Len(prefix) <= Len(s) /\ SubSeq(s, 1, Len(prefix)) = prefix

\* The first position of sub in s, 0 when there is none.
IndexOf(s, sub) ==
    LET at == {i \in 1..(Len(s) - Len(sub) + 1) : SubSeq(s, i, i + Len(sub) - 1) = sub}
    IN  IF at = {} THEN 0 ELSE CHOOSE i \in at : \A k \in at : i <= k

Includes(s, sub) == IndexOf(s, sub) > 0

RECURSIVE Split(_, _)
Split(s, sep) ==
    LET i == IndexOf(s, sep)
    IN  IF i = 0 THEN <<s>>
        ELSE <<SubSeq(s, 1, i - 1)>> \o Split(SubSeq(s, i + Len(sep), Len(s)), sep)

ConstraintFailed == <<"c", "o", "n", "s", "t", "r", "a", "i", "n", "t", " ",
                      "f", "a", "i", "l", "e", "d", ":", " ">>

NoSuchTable == <<"n", "o", " ", "s", "u", "c", "h", " ", "t", "a", "b", "l", "e">>

NoSuchColumn == <<"n", "o", " ", "s", "u", "c", "h", " ", "c", "o", "l", "u", "m", "n">>

HasNoColumnNamed == <<"h", "a", "s", " ", "n", "o", " ", "c", "o", "l", "u", "m", "n", " ",
                      "n", "a", "m", "e", "d", " ">>

\* message.split("constraint failed: ").at(1)?.split(", ").map(f =>
\* f.split(".").pop()): the column names, or "undefined".
ConstraintFields(message) ==
    LET parts == Split(message, ConstraintFailed)
    IN  IF Len(parts) < 2 THEN [constraint |-> "undefined"]
        ELSE LET fields == Split(parts[2], <<",", " ">>)
             IN  [constraint |->
                    [fields |-> [k \in 1..Len(fields) |->
                        LET q == Split(fields[k], <<".">>) IN Join(q[Len(q)])]]]

\* SQLITE_ERROR_MAP without the extended result codes.
PrimaryCodesOnly(errno) ==
    LET primary == <<"SQLITE_ERROR", "SQLITE_INTERNAL", "SQLITE_PERM", "SQLITE_ABORT",
                     "SQLITE_BUSY", "SQLITE_LOCKED", "SQLITE_NOMEM", "SQLITE_READONLY",
                     "SQLITE_INTERRUPT", "SQLITE_IOERR", "SQLITE_CORRUPT",
                     "SQLITE_NOTFOUND", "SQLITE_FULL", "SQLITE_CANTOPEN",
                     "SQLITE_PROTOCOL", "SQLITE_EMPTY", "SQLITE_SCHEMA", "SQLITE_TOOBIG",
                     "SQLITE_CONSTRAINT", "SQLITE_MISMATCH", "SQLITE_MISUSE",
                     "SQLITE_NOLFS", "SQLITE_AUTH", "SQLITE_FORMAT", "SQLITE_RANGE",
                     "SQLITE_NOTADB">>
    IN  IF errno \in 1..Len(primary) THEN primary[errno] ELSE ""

\* SQLITE_ERROR_MAP[errno], "" where the table has no entry.
SQLITE_ERROR_MAP(errno) ==
    LET primary == <<"SQLITE_ERROR", "SQLITE_INTERNAL", "SQLITE_PERM", "SQLITE_ABORT",
                     "SQLITE_BUSY", "SQLITE_LOCKED", "SQLITE_NOMEM", "SQLITE_READONLY",
                     "SQLITE_INTERRUPT", "SQLITE_IOERR", "SQLITE_CORRUPT",
                     "SQLITE_NOTFOUND", "SQLITE_FULL", "SQLITE_CANTOPEN",
                     "SQLITE_PROTOCOL", "SQLITE_EMPTY", "SQLITE_SCHEMA", "SQLITE_TOOBIG",
                     "SQLITE_CONSTRAINT", "SQLITE_MISMATCH", "SQLITE_MISUSE",
                     "SQLITE_NOLFS", "SQLITE_AUTH", "SQLITE_FORMAT", "SQLITE_RANGE",
                     "SQLITE_NOTADB">>
    IN  CASE errno \in 1..Len(primary) -> primary[errno]
          [] errno = 2067 -> "SQLITE_CONSTRAINT_UNIQUE"
          [] errno = 1555 -> "SQLITE_CONSTRAINT_PRIMARYKEY"
          [] errno = 787 -> "SQLITE_CONSTRAINT_NOTNULL"
          [] errno = 1811 -> "SQLITE_CONSTRAINT_FOREIGNKEY"
          [] errno = 1299 -> "SQLITE_CONSTRAINT_TRIGGER"
          [] OTHER -> ""

\* The default branch with the two startsWith tests only.
MessageKindByPrefixOnly(message) ==
    CASE StartsWith(message, NoSuchTable)
           -> [kind |-> "TableDoesNotExist", table |-> Split(message, <<":", " ">>)]
      [] StartsWith(message, NoSuchColumn)
           -> [kind |-> "ColumnNotFound", column |-> Split(message, <<":", " ">>)]
      [] OTHER -> [kind |-> "none"]

\* The default branch of the switch: the kind read off the message, with
\* the parts its name is taken from; "none" when the error is rethrown.
MessageKind(message) ==
    CASE StartsWith(message, NoSuchTable)
           -> [kind |-> "TableDoesNotExist", table |-> Split(message, <<":", " ">>)]
      [] StartsWith(message, NoSuchColumn)
           -> [kind |-> "ColumnNotFound", column |-> Split(message, <<":", " ">>)]
      [] Includes(message, HasNoColumnNamed)
           -> [kind |-> "ColumnNotFound", column |-> Split(message, HasNoColumnNamed)]
      [] OTHER -> [kind |-> "none"]

\* The guard with the test of code and errno left out.
RethrownAtOnceByMessageOnly(error) ==
    "message" \notin DOMAIN error \/ error.message = <<>>

\* The guard of convertDriverError: no message, or neither a string code
\* nor a numeric errno.
RethrownAtOnce(error) ==
    \/ "message" \notin DOMAIN error \/ error.message = <<>>
    \/ "code" \notin DOMAIN error /\ "errno" \notin DOMAIN error

\* convertDriverError: the mapped error it returns, or the error it throws.
convertDriverError(error) ==
    IF RethrownAtOnce(error) THEN [thrown |-> error]
    ELSE
    LET message == error.message
        code == IF "code" \in DOMAIN error /\ error.code # "" THEN error.code
                ELSE IF "errno" \in DOMAIN error /\ SQLITE_ERROR_MAP(error.errno) # ""
                THEN SQLITE_ERROR_MAP(error.errno)
                ELSE "SQLITE_UNKNOWN"
        mapped(kind) == [kind |-> kind, originalCode |-> code, originalMessage |-> message]
    IN  CASE code = "SQLITE_BUSY" -> [returned |-> mapped("SocketTimeout")]
          [] code \in {"SQLITE_CONSTRAINT_UNIQUE", "SQLITE_CONSTRAINT_PRIMARYKEY"}
               -> [returned |-> mapped("UniqueConstraintViolation"),
                   extra |-> ConstraintFields(message)]
          [] code = "SQLITE_CONSTRAINT_NOTNULL"
               -> [returned |-> mapped("NullConstraintViolation"),
                   extra |-> ConstraintFields(message)]
          [] code \in {"SQLITE_CONSTRAINT_FOREIGNKEY", "SQLITE_CONSTRAINT_TRIGGER"}
               -> [returned |-> mapped("ForeignKeyConstraintViolation")]
          [] OTHER
               -> IF MessageKind(message).kind # "none"
                  THEN [returned |-> mapped(MessageKind(message).kind),
                        extra |-> MessageKind(message)]
                  ELSE [thrown |-> error]

\* `catch (error) { throw new DriverAdapterError(convertDriverError(error)) }`:
\* what the caller receives, the error itself when convertDriverError threw it.
Caught(error) ==
    LET converted == convertDriverError(error)
    IN  IF "thrown" \in DOMAIN converted THEN converted.thrown
        ELSE [name |-> "DriverAdapterError", cause |-> converted.returned]

\* The shapes bun:sqlite gives an error of result code errno: with the
\* symbolic code and errno, with errno only, with the code only.
Coded(code, errno, message) ==
    {[message |-> message, code |-> code, errno |-> errno],
     [message |-> message, errno |-> errno],
     [message |-> message, code |-> code]}

\* Errors thrown inside the try blocks, by family: engine errors of the
\* translated codes, engine errors known by their message (errno 1, no
\* code), other engine errors, and errors that are not the engine's.
ThrownErrors ==
    [busy |-> Coded("SQLITE_BUSY", 5, MsgBusy),
     unique |-> Coded("SQLITE_CONSTRAINT_UNIQUE", 2067, MsgUnique)
                \cup Coded("SQLITE_CONSTRAINT_UNIQUE", 2067, MsgUniqueNoFields),
     primaryKey |-> Coded("SQLITE_CONSTRAINT_PRIMARYKEY", 1555, MsgUnique)
                    \cup Coded("SQLITE_CONSTRAINT_PRIMARYKEY", 1555, MsgUniqueNoFields),
     notNull |-> Coded("SQLITE_CONSTRAINT_NOTNULL", 787, MsgNotNull)
                 \cup Coded("SQLITE_CONSTRAINT_NOTNULL", 787, MsgUniqueNoFields),
     foreignKey |-> Coded("SQLITE_CONSTRAINT_FOREIGNKEY", 1811, MsgForeignKey),
     trigger |-> Coded("SQLITE_CONSTRAINT_TRIGGER", 1299, MsgForeignKey),
     noTable |-> {[message |-> MsgNoTable, errno |-> 1],
                  [message |-> MsgNoTable, code |-> "", errno |-> 1]},
     noColumn |-> {[message |-> MsgNoColumn, errno |-> 1],
                   [message |-> MsgHasNoColumn, errno |-> 1]},
     otherEngine |-> {[message |-> MsgSyntax, errno |-> 1],
                      [message |-> MsgDisk, errno |-> 266]},
     noCode |-> {[message |-> MsgInvalidTime], [message |-> <<>>],
                 [message |-> MsgNoTable], [message |-> MsgHasNoColumn],
                 [message |-> MsgUnique]}]

\* The operations whose catch block translates what was thrown.
ThrowingOps == {"queryRaw", "executeRaw", "executeScript", "startTransaction"}

\* A call of one of these operations in which `error` is thrown inside the
\* try block; io.out is what the caller receives.
ThrowingCall ==
    /\ io = NoCall
    /\ \E op \in ThrowingOps, family \in DOMAIN ThrownErrors :
          \E error \in ThrownErrors[family] :
             io' = [fn |-> "throw", op |-> op, family |-> family, error |-> error,
                    out |-> Caught(error)]
    /\ UNCHANGED coordinator

----------------------------------------------------------------------------
(* The factory (src/src/factory.ts, the class with validateConfig).  An    *)
(* option that can be left out is Undefined or a tagged value; the         *)
(* database a connection opens is known by the pragmas applied to it, in   *)
(* the order they were run.                                                *)

Bool(b) == [t |-> "boolean", b |-> b]

NaN == [t |-> "number", nan |-> TRUE]

\* "file:./dev.db"
FileUrl == <<"f", "i", "l", "e", ":", ".", "/", "d", "e", "v", ".", "d", "b">>

\* ":memory:"
MemoryUrl == <<":", "m", "e", "m", "o", "r", "y", ":">>

\* "./shadow.db"
ShadowPath == <<".", "/", "s", "h", "a", "d", "o", "w", ".", "d", "b">>

FiveThousand == Num(FALSE, <<5, 0, 0, 0>>, FALSE)

OptionalFlags == {Undefined, Bool(TRUE), Bool(FALSE)}

TimestampFormats == {"undefined", "iso8601", "unixepoch-ms"}

\* Values given for `synchronous`: left out, "NORMAL", "normal", "".
SynchronousSamples ==
    {Undefined, Str(<<"N", "O", "R", "M", "A", "L">>),
     Str(<<"n", "o", "r", "m", "a", "l">>), Str(<<>>)}

\* Values given for walAutocheckpoint and busyTimeout: left out, 2000, 0,
\* -1, 1.5 and "abc".
NumberSamples ==
    {Undefined, Num(FALSE, <<2, 0, 0, 0>>, FALSE), Num(FALSE, <<0>>, FALSE),
     Num(TRUE, <<1>>, FALSE), Num(FALSE, <<1>>, TRUE), Str(<<"a", "b", "c">>)}

\* Values given for `wal`: left out, true, false, or a WalConfiguration.
WalSamples ==
    {Undefined, Bool(TRUE), Bool(FALSE)} \cup
    [t : {"object"}, enabled : {Bool(TRUE), Bool(FALSE)},
     synchronous : SynchronousSamples, walAutocheckpoint : NumberSamples,
     busyTimeout : NumberSamples]

Configs ==
    [url : {FileUrl, MemoryUrl}, shadowDatabaseUrl : {Undefined, Str(ShadowPath)},
     timestampFormat : TimestampFormats, safeIntegers : OptionalFlags,
     allowBigIntToNumberConversion : OptionalFlags,
     allowUnsafeDateTimeAggregates : OptionalFlags, wal : WalSamples]

\* validateConfig with the two flags of its last block read by their value,
\* as its first block reads them.
validateConfigFlagsByValue(config) ==
    LET hasConversionOption == config.allowBigIntToNumberConversion = Bool(TRUE)
        hasUnsafeOption == config.allowUnsafeDateTimeAggregates = Bool(TRUE)
        guarded == /\ config.timestampFormat = "unixepoch-ms"
                   /\ config.safeIntegers # Bool(FALSE)
    IN  IF guarded /\ ~hasConversionOption /\ ~hasUnsafeOption
        THEN "requires explicit acknowledgment"
        ELSE IF guarded /\ hasConversionOption /\ hasUnsafeOption
        THEN "Cannot set both"
        ELSE IF ~guarded /\ hasConversionOption
        THEN "allowBigIntToNumberConversion is only applicable"
        ELSE IF ~guarded /\ hasUnsafeOption
        THEN "allowUnsafeDateTimeAggregates is only applicable"
        ELSE "ok"

\* validateConfig: "ok" when it returns, else the head of the message of
\* the Error it throws.
validateConfig(config) ==
    LET hasConversionOption == config.allowBigIntToNumberConversion = Bool(TRUE)
        hasUnsafeOption == config.allowUnsafeDateTimeAggregates = Bool(TRUE)
    IN  IF /\ config.timestampFormat = "unixepoch-ms"
           /\ config.safeIntegers # Bool(FALSE)
           /\ ~hasConversionOption /\ ~hasUnsafeOption
        THEN "requires explicit acknowledgment"
        ELSE IF /\ config.timestampFormat = "unixepoch-ms"
                /\ config.safeIntegers # Bool(FALSE)
                /\ hasConversionOption /\ hasUnsafeOption
        THEN "Cannot set both"
        ELSE IF /\ \/ config.timestampFormat # "unixepoch-ms"
                   \/ config.safeIntegers = Bool(FALSE)
                /\ config.allowBigIntToNumberConversion # Undefined
        THEN "allowBigIntToNumberConversion is only applicable"
        ELSE IF /\ \/ config.timestampFormat # "unixepoch-ms"
                   \/ config.safeIntegers = Bool(FALSE)
                /\ config.allowUnsafeDateTimeAggregates # Undefined
        THEN "allowUnsafeDateTimeAggregates is only applicable"
        ELSE "ok"

\* `new PrismaBunSqlite(config)`: the factory exists when validateConfig
\* returned.
Construct ==
    /\ io = NoCall
    /\ \E config \in Configs :
          io' = [fn |-> "construct", config |-> config, out |-> validateConfig(config)]
    /\ UNCHANGED coordinator

\* url.replace(/^file:/, "")
DbPath(url) ==
    IF StartsWith(url, <<"f", "i", "l", "e", ":">>) THEN SubSeq(url, 6, Len(url))
    ELSE url

\* Number(value) of a number or a string.
Number(value) ==
    CASE value.t = "number" -> value
      [] value.t = "string" ->
            IF value.s = <<>> THEN Num(FALSE, <<0>>, FALSE)
            ELSE LET b == ParseBigInt(value.s)
                 IN  IF b.t = "throw" THEN NaN ELSE ToNumber(b)
      [] OTHER -> NaN

\* Number.isInteger(x)
IsInteger(x) == "nan" \notin DOMAIN x /\ ~x.frac

\* x < 0
IsNegative(x) == "nan" \notin DOMAIN x /\ x.neg

\* `db.run("PRAGMA name = value")`
Pragma(name, value) == [pragma |-> name, value |-> value]

\* const validModes = ["OFF", "NORMAL", "FULL", "EXTRA"]
ValidModes == {"OFF", "NORMAL", "FULL", "EXTRA"}

\* The answers of the engine to PRAGMA journal_mode = WAL: the mode it
\* reports, or an error.
JournalAnswers == {"wal", "delete", "throws"}

\* `if (x)` for a boolean-or-object-or-undefined x.
IsSet(x) == x.t = "object" \/ (x.t = "boolean" /\ x.b)

\* configureWalMode(db): the pragmas it runs on db, in order, and the head
\* of the message of the DriverAdapterError it throws ("none" when it
\* returns).
configureWalMode(walConfig, journal) ==
    LET default == [applied |-> <<Pragma("busy_timeout", FiveThousand)>>,
                    thrown |-> "none"]
    IN  IF ~IsSet(walConfig) THEN default
        ELSE
        LET config == IF walConfig.t = "boolean"
                      THEN [t |-> "object", enabled |-> walConfig,
                            synchronous |-> Undefined,
                            walAutocheckpoint |-> Undefined, busyTimeout |-> Undefined]
                      ELSE walConfig
            checkpoint == Number(config.walAutocheckpoint)
            busyTimeout == IF config.busyTimeout.t \in {"undefined", "null"}
                           THEN FiveThousand ELSE config.busyTimeout
            timeout == Number(busyTimeout)
            afterJournal == <<Pragma("journal_mode", "WAL")>>
            afterSynchronous ==
                IF Truthy(config.synchronous)
                THEN afterJournal \o <<Pragma("synchronous", config.synchronous)>>
                ELSE afterJournal
            afterCheckpoint ==
                IF config.walAutocheckpoint # Undefined
                THEN afterSynchronous \o <<Pragma("wal_autocheckpoint", checkpoint)>>
                ELSE afterSynchronous
        IN  IF ~config.enabled.b THEN default
            ELSE IF journal # "wal"
            THEN [applied |-> afterJournal, thrown |-> "Failed to enable WAL mode"]
            ELSE IF Truthy(config.synchronous) /\ Join(config.synchronous.s) \notin ValidModes
            THEN [applied |-> afterJournal, thrown |-> "Invalid synchronous mode"]
            ELSE IF /\ config.walAutocheckpoint # Undefined
                    /\ (~IsInteger(checkpoint) \/ IsNegative(checkpoint))
            THEN [applied |-> afterSynchronous, thrown |-> "Invalid walAutocheckpoint"]
            ELSE IF ~IsInteger(timeout) \/ IsNegative(timeout)
            THEN [applied |-> afterCheckpoint, thrown |-> "Invalid busyTimeout"]
            ELSE [applied |-> afterCheckpoint \o <<Pragma("busy_timeout", timeout)>>,
                  thrown |-> "none"]

\* createConnection(url): the database it opens, the pragmas run on it and
\* what it throws; the database is returned when nothing is thrown.
createConnection(config, url, journal) ==
    LET dbPath == DbPath(url)
        safeIntegers == config.safeIntegers # Bool(FALSE)
        foreignKeys == <<Pragma("foreign_keys", "ON")>>
        wal == IF dbPath # MemoryUrl THEN configureWalMode(config.wal, journal)
               ELSE [applied |-> <<>>, thrown |-> "none"]
    IN  [dbPath |-> dbPath, safeIntegers |-> safeIntegers,
         applied |-> foreignKeys \o wal.applied, thrown |-> wal.thrown]

\* connect() on a factory that was constructed.
Connect ==
    /\ io.fn = "construct" /\ io.out = "ok"
    /\ \E journal \in JournalAnswers :
          io' = [fn |-> "connect", config |-> io.config, journal |-> journal,
                 out |-> createConnection(io.config, io.config.url, journal)]
    /\ UNCHANGED coordinator

\* connectToShadowDb() on a factory that was constructed.
ConnectToShadowDb ==
    /\ io.fn = "construct" /\ io.out = "ok"
    /\ \E journal \in JournalAnswers :
          LET shadowUrl == IF io.config.shadowDatabaseUrl.t \in {"undefined", "null"}
                           THEN MemoryUrl ELSE io.config.shadowDatabaseUrl.s
          IN  io' = [fn |-> "connectToShadowDb", config |-> io.config,
                     journal |-> journal,
                     out |-> createConnection(io.config, shadowUrl, journal)]
    /\ UNCHANGED coordinator

----------------------------------------------------------------------------
(* Declared types as schemas spell them (src/src/conversion.ts,            *)
(* mapDeclType): a label of the switch, in another letter case, with a     *)
(* length or precision, or with UNSIGNED.                                  *)

\* The labels of mapDeclType's switch that carry no UNSIGNED suffix.
BaseTypes ==
    {<<"D", "E", "C", "I", "M", "A", "L">>,
     <<"F", "L", "O", "A", "T">>,
     <<"D", "O", "U", "B", "L", "E">>,
     <<"D", "O", "U", "B", "L", "E", " ", "P", "R", "E", "C", "I", "S", "I", "O", "N">>,
     <<"N", "U", "M", "E", "R", "I", "C">>,
     <<"R", "E", "A", "L">>,
     <<"T", "I", "N", "Y", "I", "N", "T">>,
     <<"S", "M", "A", "L", "L", "I", "N", "T">>,
     <<"M", "E", "D", "I", "U", "M", "I", "N", "T">>,
     <<"I", "N", "T">>,
     <<"I", "N", "T", "E", "G", "E", "R">>,
     <<"S", "E", "R", "I", "A", "L">>,
     <<"I", "N", "T", "2">>,
     <<"B", "I", "G", "I", "N", "T">>,
     <<"U", "N", "S", "I", "G", "N", "E", "D", " ", "B", "I", "G", " ", "I", "N", "T">>,
     <<"I", "N", "T", "8">>,
     <<"D", "A", "T", "E", "T", "I", "M", "E">>,
     <<"T", "I", "M", "E", "S", "T", "A", "M", "P">>,
     <<"T", "I", "M", "E">>,
     <<"D", "A", "T", "E">>,
     <<"T", "E", "X", "T">>,
     <<"C", "L", "O", "B">>,
     <<"C", "H", "A", "R">>,
     <<"C", "H", "A", "R", "A", "C", "T", "E", "R">>,
     <<"V", "A", "R", "C", "H", "A", "R">>,
     <<"V", "A", "R", "Y", "I", "N", "G", " ", "C", "H", "A", "R", "A", "C", "T", "E", "R">>,
     <<"N", "C", "H", "A", "R">>,
     <<"N", "A", "T", "I", "V", "E", " ", "C", "H", "A", "R", "A", "C", "T", "E", "R">>,
     <<"N", "V", "A", "R", "C", "H", "A", "R">>,
     <<"B", "L", "O", "B">>,
     <<"B", "O", "O", "L", "E", "A", "N">>,
     <<"J", "S", "O", "N">>,
     <<"J", "S", "O", "N", "B">>}

\* The labels among them that name an integer type of its own.
IntegerBaseTypes ==
    {<<"T", "I", "N", "Y", "I", "N", "T">>,
     <<"S", "M", "A", "L", "L", "I", "N", "T">>,
     <<"M", "E", "D", "I", "U", "M", "I", "N", "T">>,
     <<"I", "N", "T">>,
     <<"I", "N", "T", "E", "G", "E", "R">>,
     <<"S", "E", "R", "I", "A", "L">>,
     <<"I", "N", "T", "2">>,
     <<"B", "I", "G", "I", "N", "T">>,
     <<"I", "N", "T", "8">>}

\* s.toLowerCase()
ToLowerCase(s) ==
    [i \in 1..Len(s) |->
        IF \E k \in 1..Len(UpperCase) : UpperCase[k] = s[i]
        THEN LowerCase[CHOOSE k \in 1..Len(UpperCase) : UpperCase[k] = s[i]]
        ELSE s[i]]

\* "(255)" and "(10, 2)"
LengthSuffix == <<"(", "2", "5", "5", ")">>

PrecisionSuffix == <<"(", "1", "0", ",", " ", "2", ")">>

UnsignedSuffix == <<" ", "U", "N", "S", "I", "G", "N", "E", "D">>

Spellings == {"plain", "lower", "length", "precision", "unsigned"}

\* The declaration of base type T in one of these spellings.
Spelled(T, spelling) ==
    CASE spelling = "plain" -> T
      [] spelling = "lower" -> ToLowerCase(T)
      [] spelling = "length" -> T \o LengthSuffix
      [] spelling = "precision" -> T \o PrecisionSuffix
      [] spelling = "unsigned" -> T \o UnsignedSuffix

\* mapDeclType(declType) for a base type of the table in one spelling;
\* UNSIGNED is only written after an integer type.
MapDeclTypeCall ==
    /\ io = NoCall
    /\ \E T \in BaseTypes, spelling \in Spellings :
          /\ spelling = "unsigned" => T \in IntegerBaseTypes
          /\ io' = [fn |-> "mapDeclType", base |-> T, spelling |-> spelling,
                    declType |-> Spelled(T, spelling),
                    out |-> mapDeclType(Spelled(T, spelling))]
    /\ UNCHANGED coordinator

----------------------------------------------------------------------------
(* Programmatic migrations (src/src/migrations.ts).  A migration is known  *)
(* by its name, a number here, and by how its script behaves when it is    *)
(* executed; the tracking table is the sequence of its rows, in the order  *)
(* they were inserted.                                                     *)

MaxMigrations == 2

MaxRuns == 3

MigrationNames == 1..MaxMigrations

\* A script that can be executed any number of times (CREATE TABLE IF NOT
\* EXISTS), one that fails when executed again after it succeeded (CREATE
\* TABLE), and one that always fails.
ScriptKinds == {"repeatable", "once", "broken"}

\* The migration lists: up to MaxMigrations migrations of different names.
MigrationLists ==
    UNION {{list \in [1..n -> [name : MigrationNames, sql : ScriptKinds]] :
                \A i, j \in 1..n : list[i].name = list[j].name => i = j} :
           n \in 0..MaxMigrations}

\* adapter.executeScript(migration.sql) returns, given how often the script
\* was executed before.
ScriptSucceeds(migration, executed) ==
    \/ migration.sql = "repeatable"
    \/ migration.sql = "once" /\ executed[migration.name] = 0

\* The applied check looking at the newest row of the table only.
AppliedIfNewest(table, migration) ==
    table # <<>> /\ table[Len(table)].migration_name = migration.name

\* `SELECT id FROM _prisma_migrations WHERE migration_name = ?` finds a
\* row.
Applied(table, migration) ==
    \E r \in 1..Len(table) : table[r].migration_name = migration.name

\* The loop of runMigrations from the i-th migration on: db is the tracking
\* table, how often each script was executed and the engine's clock, which
\* moves on before the insert of the migrations in `advance`.
RECURSIVE RunFrom(_, _, _, _, _)
RunFrom(migrations, i, skipApplied, advance, db) ==
    IF i > Len(migrations) THEN [db EXCEPT !.outcome = "returned"]
    ELSE
    LET migration == migrations[i]
        applied == Applied(db.table, migration)
        now == db.clock + (IF i \in advance THEN 1 ELSE 0)
    IN  IF skipApplied /\ applied
        THEN RunFrom(migrations, i + 1, skipApplied, advance, db)
        ELSE IF ~ScriptSucceeds(migration, db.executed)
        THEN [db EXCEPT !.outcome = "threw"]
        ELSE RunFrom(migrations, i + 1, skipApplied, advance,
                     [db EXCEPT !.executed[migration.name] = @ + 1,
                                !.clock = now,
                                !.table = Append(@, [migration_name |-> migration.name,
                                                     started_at |-> now])])

\* A database no migration has touched.
FreshDatabase ==
    [tableExists |-> FALSE, table |-> <<>>,
     executed |-> [name \in MigrationNames |-> 0], clock |-> 0, outcome |-> "none"]

\* runMigrations(adapter, migrations, options): the tracking table is
\* created if it is missing, then the loop runs.  The first call is on a
\* fresh database; the later ones repeat it on the database it left.
RunMigrations ==
    /\ \/ io = NoCall
       \/ io.fn = "runMigrations" /\ io.runs < MaxRuns
    /\ \E migrations \in MigrationLists, skipApplied \in {Undefined, Bool(FALSE)},
          advance \in SUBSET (1..MaxMigrations) :
          LET db == IF io = NoCall THEN FreshDatabase ELSE io.db
              skip == IF skipApplied = Undefined THEN TRUE ELSE skipApplied.b
          IN  /\ io # NoCall =>
                    migrations = io.migrations /\ skipApplied = io.skipApplied
              /\ io' = [fn |-> "runMigrations", migrations |-> migrations,
                        skipApplied |-> skipApplied,
                        runs |-> (IF io = NoCall THEN 0 ELSE io.runs) + 1,
                        db |-> RunFrom(migrations, 1, skip, advance,
                                       [db EXCEPT !.tableExists = TRUE])]
    /\ UNCHANGED coordinator

\* ORDER BY started_at: rows of equal started_at stay in table order.
RECURSIVE OrderByStartedAt(_)
OrderByStartedAt(rows) ==
    IF rows = <<>> THEN <<>>
    ELSE LET n == Len(rows)
             sorted == OrderByStartedAt(SubSeq(rows, 1, n - 1))
             k == Cardinality({r \in 1..(n - 1) :
                                  sorted[r].started_at <= rows[n].started_at})
         IN  SubSeq(sorted, 1, k) \o <<rows[n]>> \o SubSeq(sorted, k + 1, n - 1)

\* getAppliedMigrations(adapter) on database db.
getAppliedMigrations(db) ==
    IF ~db.tableExists THEN <<>>
    ELSE LET rows == OrderByStartedAt(db.table)
         IN  [r \in 1..Len(rows) |-> rows[r].migration_name]

\* One call of the conversion layer or of the factory, on any input of the
\* sample sets.
CallNext ==
    \/ QueryRawCall
    \/ RoundTripCall
    \/ ThrowingCall
    \/ Construct
    \/ Connect
    \/ ConnectToShadowDb
    \/ MapDeclTypeCall
    \/ RunMigrations

CallSpec == Init /\ [][CallNext]_vars

\* C12: in every ResultSet returned by queryRaw, columnNames, columnTypes
\* and each row have the same length.
C12_ResultSetShape ==
    io.fn = "queryRaw" /\ "rows" \in DOMAIN io.out =>
        /\ Len(io.out.columnNames) = Len(io.out.columnTypes)
        /\ \A j \in 1..Len(io.out.rows) :
              Len(io.out.rows[j]) = Len(io.out.columnNames)

\* The type the resolution order gives column i of a statement: the mapped
\* declared type, else the mapped storage class the engine reports, else
\* the type of the first row's value, else Int32.
ResolvedInOrder(stmt, i) ==
    LET declType == IF stmt.metadata \in {"full", "deduplicated"}
                    THEN stmt.cols[i].decl ELSE Null
        runtimeType == IF stmt.columnTypesThrows THEN Undefined
                       ELSE stmtColumnTypes(stmt)[i]
        value == IF stmt.nRows > 0 THEN stmt.cols[i].value ELSE Undefined
    IN  IF Truthy(declType) /\ mapDeclType(declType.s) # "null"
        THEN mapDeclType(declType.s)
        ELSE IF mapRuntimeType(runtimeType) # "null" THEN mapRuntimeType(runtimeType)
        ELSE IF inferTypeFromValue(value) # "null" THEN inferTypeFromValue(value)
        ELSE "Int32"

\* C13: every column type of a queryRaw result is the first available of:
\* mapped declared type, mapped engine runtime type, type inferred from the
\* first row's value, Int32.
C13_ResolutionOrder ==
    io.fn = "queryRaw" /\ "rows" \in DOMAIN io.out =>
        \A i \in 1..Len(io.out.columnTypes) :
            i <= Len(io.stmt.cols) => io.out.columnTypes[i] = ResolvedInOrder(io.stmt, i)

\* The decoded value of a round trip that returned a row.
Decoded == io.out.rows[1][1]

\* String(v) of a decoded integer v.
DecimalString(v) == IF v.t = "string" THEN v.s ELSE NumberToString(v)

\* The round trip went through wide-integer storage into a column that is
\* not typed DateTime (whose integers are instants and decode to ISO-8601).
WideRoundTrip ==
    /\ io.fn = "roundTrip"
    /\ io.options.safeIntegers
    /\ "rows" \in DOMAIN io.out
    /\ io.out.columnTypes[1] # "DateTime"

\* C14: a 64-bit integer given as a decimal string with a bigint argument
\* type and read back is the same decimal string, both extremes included.
C14_WideIntegerRoundTrip ==
    WideRoundTrip => Decoded.t \in {"string", "number"} /\ DecimalString(Decoded) = io.arg

\* Both extremes went through: -2^63 and 2^63-1 came back as given.
C14_Witness ==
    /\ WideRoundTrip
    /\ io.arg \in {I64Min, I64Max}
    /\ Decoded = Str(io.arg)

\* C15: a decoded wide integer is its decimal string when
\* allowBigIntToNumberConversion is unset; when it is set, it is a number
\* exactly for 0 <= v <= 7,300,000,000,000 and the decimal string otherwise.
C15_NumericCoercionRange ==
    WideRoundTrip =>
        IF io.options.allowBigIntToNumberConversion /\ io.arg \in WithinCeiling
        THEN Decoded.t = "number" /\ ~Decoded.frac /\ NumberToString(Decoded) = io.arg
        ELSE Decoded = Str(io.arg)

\* With the option set, 7,300,000,000,000 itself came back as a number.
C15_Witness ==
    /\ WideRoundTrip
    /\ io.options.allowBigIntToNumberConversion
    /\ io.arg = AtCeiling
    /\ Decoded.t = "number"

\* The statement's metadata getters answered (nothing was thrown).
MetadataReported == io.stmt.metadata \in {"full", "deduplicated"}

StemsFrom(o, v) ==
    CASE v.t = "null" -> o = Null
      [] v.t = "string" -> o = v
      [] v.t = "bigint" -> o.t \in {"string", "number"}
                           /\ DecimalString(o) = BigIntToString(v)
      [] v.t = "number" -> o.t = "number" /\ o.neg = v.neg /\ o.mag = v.mag
      [] OTHER -> FALSE

\* C17: every returned row has as many values as the engine row, and value
\* i stems from engine value i; two columns of the same name keep both
\* their values.
C17_RowsKeepEveryColumn ==
    io.fn = "queryRaw" /\ "rows" \in DOMAIN io.out =>
        /\ Len(io.out.rows) = io.stmt.nRows
        /\ \A j \in 1..Len(io.out.rows) :
              /\ Len(io.out.rows[j]) = Len(io.stmt.cols)
              /\ \A i \in 1..Len(io.stmt.cols) :
                    StemsFrom(io.out.rows[j][i], io.stmt.cols[i].value)

\* A join row with two columns called id and different values in them was
\* returned with both values in place, whether or not the engine
\* deduplicated the names.
C17_Witness ==
    /\ io.fn = "queryRaw" /\ io.stmt.nRows = 1 /\ io.stmt.metadata = "deduplicated"
    /\ Len(io.stmt.cols) = 2 /\ NameOf(1) = NameOf(2)
    /\ io.stmt.cols[1].value = Str(<<"x">>)
    /\ io.stmt.cols[2].value = BigInt(FALSE, <<5>>)
    /\ io.out.rows = << <<Str(<<"x">>), Str(<<"5">>)>> >>

\* The caller received a DriverAdapterError of the given kind.
Translated(kind) ==
    "cause" \in DOMAIN io.out /\ io.out.name = "DriverAdapterError"
    /\ io.out.cause.kind = kind

\* C18: the kind of a translated engine error follows from its code alone,
\* given as a symbolic code or as a numeric result code, and whether or
\* not the message names fields: busy is SocketTimeout, unique and primary
\* key are UniqueConstraintViolation, not-null is NullConstraintViolation,
\* foreign key and trigger are ForeignKeyConstraintViolation.
C18_KindFollowsCode ==
    io.fn = "throw" =>
        /\ io.family = "busy" => Translated("SocketTimeout")
        /\ io.family \in {"unique", "primaryKey"} => Translated("UniqueConstraintViolation")
        /\ io.family = "notNull" => Translated("NullConstraintViolation")
        /\ io.family \in {"foreignKey", "trigger"}
              => Translated("ForeignKeyConstraintViolation")

\* A not-null violation that came with the numeric result code only and
\* with a message naming no field was translated.
C18_Witness ==
    /\ io.fn = "throw" /\ io.family = "notNull"
    /\ "code" \notin DOMAIN io.error
    /\ io.error.message = MsgUniqueNoFields
    /\ Translated("NullConstraintViolation")

\* C19: an engine error whose message starts with "no such table" becomes
\* TableDoesNotExist, one whose message starts with "no such column" or
\* contains "has no column named" becomes ColumnNotFound, in reads and
\* writes alike.
C19_MissingTableOrColumn ==
    io.fn = "throw" =>
        /\ io.family = "noTable" => Translated("TableDoesNotExist")
        /\ io.family = "noColumn" => Translated("ColumnNotFound")

\* A write naming a missing column ("table User has no column named age")
\* failed with ColumnNotFound.
C19_Witness ==
    /\ io.fn = "throw" /\ io.op = "executeRaw" /\ io.family = "noColumn"
    /\ io.error.message = MsgHasNoColumn
    /\ Translated("ColumnNotFound")

C21_EngineErrorsWrapped ==
    /\ io.fn = "throw"
    /\ io.op \in {"queryRaw", "executeRaw", "executeScript"}
    /\ io.family # "noCode"
    => /\ "name" \in DOMAIN io.out
       /\ io.out.name = "DriverAdapterError"
       /\ io.family = "otherEngine" => io.out.cause.kind = "GenericJs"

\* The configurations C22 lets through: (a) unixepoch-ms with safe integers
\* and exactly one of the two flags set, or (b) ISO-8601 (also the default)
\* or no safe integers, with neither flag provided.
Accepted(config) ==
    LET epochWithWide == /\ config.timestampFormat = "unixepoch-ms"
                         /\ config.safeIntegers # Bool(FALSE)
        conversion == config.allowBigIntToNumberConversion
        unsafe == config.allowUnsafeDateTimeAggregates
    IN  \/ epochWithWide /\ ((conversion = Bool(TRUE)) # (unsafe = Bool(TRUE)))
        \/ ~epochWithWide /\ conversion = Undefined /\ unsafe = Undefined

\* C22: constructing the factory succeeds exactly for the accepted
\* configurations, and a connection is only ever opened by a factory whose
\* configuration was accepted.
C22_ConstructionValidatesFlags ==
    /\ io.fn = "construct" => (io.out = "ok" <=> Accepted(io.config))
    /\ io.fn \in {"connect", "connectToShadowDb"} => Accepted(io.config)

\* A flag given as false with ISO-8601 timestamps made the constructor
\* throw.
C22_Witness ==
    /\ io.fn = "construct"
    /\ io.config.timestampFormat = "iso8601"
    /\ io.config.allowBigIntToNumberConversion = Bool(FALSE)
    /\ io.config.allowUnsafeDateTimeAggregates = Undefined
    /\ io.out = "allowBigIntToNumberConversion is only applicable"

\* A value given for walAutocheckpoint or busyTimeout that is not a
\* non-negative integer.
NotAllowedNumber(value) ==
    value # Undefined /\ (~IsInteger(Number(value)) \/ IsNegative(Number(value)))

\* A WAL configuration with a synchronous value outside the closed set, or
\* a checkpoint page count or lock timeout that is not a non-negative
\* integer.
InvalidWal(wal) ==
    /\ wal.t = "object"
    /\ \/ wal.synchronous # Undefined /\ Join(wal.synchronous.s) \notin ValidModes
       \/ NotAllowedNumber(wal.walAutocheckpoint)
       \/ NotAllowedNumber(wal.busyTimeout)

\* C23: no connection is returned for a configuration with an invalid WAL
\* setting, whether WAL is enabled or not and whether the database is a
\* file or in memory: connecting fails with an error.
C23_InvalidWalRejected ==
    io.fn \in {"connect", "connectToShadowDb"} /\ InvalidWal(io.config.wal)
        => io.out.thrown # "none"

\* The lock timeout C24 expects on a connection: the configured one when it
\* is a non-negative integer, 5000 otherwise.
ExpectedTimeout(wal) ==
    IF wal.t = "object" /\ wal.busyTimeout # Undefined /\ ~NotAllowedNumber(wal.busyTimeout)
    THEN Number(wal.busyTimeout)
    ELSE FiveThousand

\* C24: every connection the factory returns, main or shadow, on a file or
\* in memory, with WAL enabled, disabled or left out, has had
\* PRAGMA foreign_keys = ON and a PRAGMA busy_timeout applied, of 5000 ms
\* unless a valid timeout was configured.
C24_ForeignKeysAndTimeoutAlways ==
    io.fn \in {"connect", "connectToShadowDb"} /\ io.out.thrown = "none" =>
        /\ \E i \in 1..Len(io.out.applied) : io.out.applied[i].pragma = "foreign_keys"
        /\ \E i \in 1..Len(io.out.applied) :
              /\ io.out.applied[i].pragma = "busy_timeout"
              /\ io.out.applied[i].value = ExpectedTimeout(io.config.wal)

\* C30: when connecting fails on an invalid synchronous, checkpoint or
\* timeout value, none of the journal-mode, synchronous, checkpoint and
\* lock-timeout pragmas of that configuration has been applied.
C30_RejectionLeavesEngineUntouched ==
    /\ io.fn \in {"connect", "connectToShadowDb"}
    /\ io.out.thrown \in {"Invalid synchronous mode", "Invalid walAutocheckpoint",
                          "Invalid busyTimeout"}
    => \A i \in 1..Len(io.out.applied) :
          io.out.applied[i].pragma \notin
              {"journal_mode", "synchronous", "wal_autocheckpoint", "busy_timeout"}

\* C25: a base type of the lookup table resolves to the same ColumnType in
\* lower case and with a parenthesised length or precision, and an integer
\* base type resolves to it with UNSIGNED as well.
C25_DeclaredTypeSpellings ==
    io.fn = "mapDeclType" =>
        /\ io.out # "null"
        /\ io.out = mapDeclType(io.base)

\* C26: with skipApplied left at its default, after any number of runs of
\* runMigrations over the same list that all returned, every script was
\* executed exactly once and the applied migrations are the names of the
\* list, once each and in the list's order.
C26_MigrationsIdempotent ==
    /\ io.fn = "runMigrations"
    /\ io.skipApplied = Undefined
    /\ io.db.outcome = "returned"
    => /\ \A i \in 1..Len(io.migrations) : io.db.executed[io.migrations[i].name] = 1
       /\ getAppliedMigrations(io.db) =
             [i \in 1..Len(io.migrations) |-> io.migrations[i].name]

\* The third run over two migrations, of a script that cannot be executed
\* twice and one that can, inserted in the same second.
C26_Witness ==
    /\ io.fn = "runMigrations" /\ io.runs = 3 /\ io.skipApplied = Undefined
    /\ io.db.outcome = "returned"
    /\ Len(io.migrations) = 2
    /\ io.migrations[1] = [name |-> 2, sql |-> "once"]
    /\ io.migrations[2] = [name |-> 1, sql |-> "repeatable"]
    /\ io.db.table[1].started_at = io.db.table[2].started_at

\* C27: the locked flag is set whenever a call holds the gate or a waiter
\* is queued, so a startTransaction that arrives while the gate is held,
\* is being handed over or has waiters is never granted at once: it is
\* queued behind the waiters already there.
C27_LockedWhileHeldOrQueued ==
    /\ [](queue # <<>> => locked)
    /\ []((\E c \in Call : Holds(c)) => locked)
    /\ [][\A level \in {"absent", "SERIALIZABLE"} :
             StartTransaction(level) /\ (queue # <<>> \/ \E d \in Call : Holds(d)) =>
                \A c \in {nextCall} :
                    pc'[c] = "waiting" /\ queue' = Append(queue, c)]_vars

\* Call e arrived after the gate was handed from c to d and before d went
\* on: it was queued.
C27_Witness ==
    \E c, d, e \in Call :
        /\ HasReleased(c) /\ releases[c] = 1
        /\ pc[d] = "granted" /\ d > c
        /\ last = [op |-> "startTransaction", by |-> e, out |-> "pending", exec |-> "none"]
        /\ pc[e] = "waiting" /\ queue = <<e>> /\ locked

\* The engine has an open transaction only while a Transaction is active.
OpenOnlyInFlight == engineTxn => \E c \in Call : InFlight(c)

\* The step keeps to C28's premises: a first commit() or rollback() on c
\* follows a successful COMMIT or ROLLBACK sent through c's executeRaw,
\* and no statement on the connection object opens a transaction.
Disciplined ==
    /\ \A c \in Call :
          state[c] = "active" /\ EndsTransaction(c) =>
              /\ last.op = "executeRaw" /\ last.by = c /\ last.out = "ok"
              /\ last.exec \in {"COMMIT", "ROLLBACK"}
    /\ ~(last'.by = Conn /\ last'.exec = "BEGIN" /\ last'.out = "ok")

\* C28: as long as the steps keep to these premises, startTransaction
\* never sends BEGIN while the engine has a transaction open, and the
\* engine has none whenever a call has been granted the gate and has not
\* yet begun.
C28_BeginOnlyWhenEngineIdle ==
    /\ [][OpenOnlyInFlight /\ Disciplined =>
            /\ OpenOnlyInFlight'
            /\ last'.op = "startTransaction" /\ last'.exec = "BEGIN" => ~engineTxn
            /\ \A c \in Call : pc'[c] = "granted" => ~engineTxn']_vars
    /\ [](OpenOnlyInFlight => \A c \in Call : pc[c] = "granted" => ~engineTxn)

\* Call d was handed the gate by c's commit() after c's engine transaction
\* had ended: the engine has none open, and the database is still open.
C28_Witness ==
    \E c, d \in Call :
        /\ last = [op |-> "commit", by |-> c, out |-> "ok", exec |-> "none"]
        /\ state[c] = "committed" /\ releases[c] = 1
        /\ pc[d] = "granted" /\ ~engineTxn /\ dbOpen

\* C29: a queryRaw or executeRaw that the engine refuses inside an active
\* transaction leaves the transaction active, the gate held by it and the
\* waiters where they are; an active transaction stops being active only
\* by its own commit() or rollback().
C29_StatementErrorKeepsTransaction ==
    /\ [][\A c \in Call :
            InFlight(c) /\ TxStatement(c) /\ last'.out = "EngineError" =>
                /\ state' = state /\ pc' = pc
                /\ locked /\ locked' /\ queue' = queue
                /\ called' = called /\ releases' = releases]_vars
    /\ [][\A c \in Call : InFlight(c) /\ ~InFlight(c)' => EndsTransaction(c)]_vars

\* A statement failed on the data inside the active transaction c while
\* another call waits for the gate.
C29_Witness ==
    \E c \in Call :
        /\ last = [op |-> "executeRaw", by |-> c, out |-> "EngineError", exec |-> "DML"]
        /\ InFlight(c) /\ locked /\ queue # <<>> /\ dbOpen /\ engineTxn

====
